---------------------------- MODULE Spec2Model ----------------------------
(***************************************************************************)
(* A model of oxidized-mdf: the page reader, the page and record decoders, *)
(* the value parser, the system-catalog bootstrap and the row stream.      *)
(*                                                                         *)
(* Conventions.                                                            *)
(*   - A byte slice is a sequence of numbers 0..255; offset o of the code  *)
(*     is index o + 1 of the sequence.                                     *)
(*   - Option<T>: <<>> is None and <<x>> is Some(x).                       *)
(*   - A fallible computation returns [k, v]: k = "ok" with the value,     *)
(*     k = "err" with the error message (Result::Err), or k = "panic" with *)
(*     the panic message (unwrap, assert!, todo!, a slice index out of     *)
(*     range).                                                             *)
(*   - A String is the sequence of its code points; Rust orders Strings by *)
(*     their UTF-8 bytes, which is the order of the code point sequences.  *)
(*   - Integers wider than 31 bits (i64, u128, the decimal mantissa) are   *)
(*     kept as their little-endian bytes when they are only carried, and   *)
(*     decoded to a number where the code compares them.                   *)
(***************************************************************************)
EXTENDS Integers, Sequences, FiniteSets, TLC

None == <<>>
Some(x) == <<x>>
IsSome(o) == o # <<>>
Unwrap(o) == o[1]

OkR(x) == [k |-> "ok", v |-> x]
ErrR(msg) == [k |-> "err", v |-> msg]
PanicR(msg) == [k |-> "panic", v |-> msg]
IsOk(r) == r.k = "ok"

Min(a, b) == IF a <= b THEN a ELSE b

\* `let x = e;`: Body goes on with the value of e.
Let(e, Body(_)) == Body(e)

\* `let x = e?;`: an Err (or a panic) of r leaves the function, else Body goes
\* on with the value of r.
Try(r, Body(_)) == IF r.k = "ok" THEN Body(r.v) ELSE r

\* The least element of a non-empty set of numbers.
Least(hits) == CHOOSE i \in hits : \A j \in hits : i <= j

\* The sequence F(1), ..., F(n).
MapSeq(n, F(_)) == SubSeq([i \in 1..n |-> F(i)], 1, n)

\* A loop that pushes the value of each result in turn and that the first
\* panic leaves: that panic, else ok with the values.
Collect(results) ==
    Let({i \in 1..Len(results) : results[i].k # "ok"}, LAMBDA failed :
    IF failed # {} THEN results[Least(failed)]
    ELSE OkR([i \in 1..Len(results) |-> results[i].v]))

\* bytes[from..to] of the code: offsets from (inclusive) to to (exclusive).
Slice(bytes, from, to) == SubSeq(bytes, from + 1, to)

\* split_at(n): the code's slice::split_at, defined for n <= len.
SplitAt(bytes, n) == <<SubSeq(bytes, 1, n), SubSeq(bytes, n + 1, Len(bytes))>>

RECURSIVE LeUnsigned(_)
\* byteorder read_uN::<LittleEndian>: the unsigned value of the bytes.
LeUnsigned(bytes) ==
    IF bytes = <<>> THEN 0
    ELSE IF \A i \in 1..Len(bytes) : bytes[i] = 0 THEN 0
    ELSE Head(bytes) + 256 * LeUnsigned(Tail(bytes))

read_u16(bytes) == bytes[1] + 256 * bytes[2]

read_i16(bytes) ==
    LET u == read_u16(bytes) IN IF u >= 32768 THEN u - 65536 ELSE u

read_i8(bytes) == IF bytes[1] >= 128 THEN bytes[1] - 256 ELSE bytes[1]

\* read_i32::<LittleEndian>: the high half is taken signed, so that the value
\* stays within 32 bits.
read_i32(bytes) ==
    read_u16(SubSeq(bytes, 1, 2)) + 65536 * read_i16(SubSeq(bytes, 3, 4))

\* read_i24::<LittleEndian>
read_i24(bytes) ==
    read_u16(SubSeq(bytes, 1, 2)) + 65536 * read_i8(SubSeq(bytes, 3, 3))

\* read_i64::<LittleEndian> of a value that fits 31 bits (the catalog ids);
\* the sign extension of a negative 32-bit value is recognised.
read_i64(bytes) ==
    IF \A i \in 5..8 : bytes[i] = 255 THEN read_i32(SubSeq(bytes, 1, 4))
    ELSE LeUnsigned(bytes)

-----------------------------------------------------------------------------
(* pages.rs: PagePointer                                                   *)

PagePointer(page_id, file_id) == [page_id |-> page_id, file_id |-> file_id]

with_page_id(ptr, page_id) == [page_id |-> page_id, file_id |-> ptr.file_id]

\* PagePointer::try_from with the page id read from all four bytes of the
\* page number.
PagePointerTryFromU32(bytes) ==
    IF Len(bytes) # 6 THEN ErrR("Page pointer must be 6 bytes.")
    ELSE OkR(PagePointer(bytes[1] + 256 * bytes[2] + 65536 * bytes[3] + 16777216 * bytes[4],
                         read_u16(Slice(bytes, 4, 6))))

\* read_u16 on the 4-byte page number reads its first two bytes only.
PagePointerTryFrom(bytes) ==
    IF Len(bytes) # 6 THEN ErrR("Page pointer must be 6 bytes.")
    ELSE OkR(PagePointer(read_u16(Slice(bytes, 0, 4)),
                         read_u16(Slice(bytes, 4, 6))))

-----------------------------------------------------------------------------
(* pages.rs: PageHeader and Page                                           *)

PageSize == 8192

PageHeaderTryFrom(bytes) ==
    IF Len(bytes) # 96 THEN ErrR("Page header must be 96 bytes.")
    ELSE Try(PagePointerTryFrom(Slice(bytes, 16, 22)), LAMBDA p :
         OkR([slot_count |-> read_u16(Slice(bytes, 22, 24)),
              next_page_pointer |-> IF p.page_id > 0 THEN Some(p) ELSE None]))

\* Page::try_from([u8; 8192]): the header is parsed on construction.
PageTryFrom(bytes) ==
    Try(PageHeaderTryFrom(Slice(bytes, 0, 96)), LAMBDA h :
    OkR([header |-> h, bytes |-> bytes]))

next_page_pointer(page) == page.header.next_page_pointer

RECURSIVE InsertSorted(_, _)
InsertSorted(x, s) ==
    IF s = <<>> THEN <<x>>
    ELSE IF x <= Head(s) THEN <<x>> \o s
    ELSE <<Head(s)>> \o InsertSorted(x, Tail(s))

RECURSIVE SortAsc(_)
\* sort_unstable on numbers: ascending, duplicates kept.
SortAsc(s) == IF s = <<>> THEN <<>> ELSE InsertSorted(Head(s), SortAsc(Tail(s)))

\* The slot values in the order they lie in the last 2 * slot_count bytes.
SlotsOnDisk(page) ==
    LET n == page.header.slot_count
        start == Len(page.bytes) - n * 2
    IN [i \in 1..n |-> read_u16(Slice(page.bytes, start + 2 * (i - 1), start + 2 * i))]

\* Page::slots. slot_count * 2 > 8192 underflows the range start: the slice
\* index is out of range whether the subtraction wraps or traps.
slots(page) == SortAsc(SlotsOnDisk(page))

-----------------------------------------------------------------------------
(* pages.rs: Record, NullBitmap, VariableColumns                           *)

RecordTypeOf(n) ==
    CASE n = 0 -> "Primary"
      [] n = 1 -> "Forwarded"
      [] n = 2 -> "ForwardingStub"
      [] n = 3 -> "Index"
      [] n = 4 -> "BlobFragment"
      [] n = 5 -> "GhostIndex"
      [] n = 6 -> "GhostData"
      [] OTHER -> "GhostVersion"

\* NullBitmap::new: the iterator starts at bit 0.
NullBitmapNew(bytes) == [index |-> 0, null_bitmap |-> bytes]

\* Bit i of the bitmap in Lsb0 order: bit i % 8 of byte i / 8.
BitAt(bytes, i) == (bytes[(i \div 8) + 1] \div (2 ^ (i % 8))) % 2 = 1

\* NullBitmap::next: <<Option<bool>, the advanced iterator>>.
NullBitmapNext(nb) ==
    IF nb.index >= 8 * Len(nb.null_bitmap) THEN <<None, nb>>
    ELSE <<Some(BitAt(nb.null_bitmap, nb.index)),
           [nb EXCEPT !.index = nb.index + 1]>>

\* VariableColumns::new with the variable data taken to start where the
\* end-offset table starts.
VariableColumnsNewAtTable(read_bytes, bytes) ==
    IF Len(bytes) < 2 THEN PanicR("unwrap: failed to fill whole buffer")
    ELSE LET n == read_u16(bytes)
             rest == SubSeq(bytes, 3, Len(bytes))
         IN IF n * 2 > Len(rest) THEN PanicR("split_at: mid > len")
            ELSE OkR([variable_columns |-> SplitAt(rest, n * 2)[2],
                      variable_length_column_lengths |-> SplitAt(rest, n * 2)[1],
                      read_bytes_index |-> Some(read_bytes + 2)])

\* VariableColumns::new(read_bytes, bytes)
VariableColumnsNew(read_bytes, bytes) ==
    IF Len(bytes) < 2 THEN PanicR("unwrap: failed to fill whole buffer")
    ELSE LET n == read_u16(bytes)
             rest == SubSeq(bytes, 3, Len(bytes))
         IN IF n * 2 > Len(rest) THEN PanicR("split_at: mid > len")
            ELSE OkR([variable_columns |-> SplitAt(rest, n * 2)[2],
                      variable_length_column_lengths |-> SplitAt(rest, n * 2)[1],
                      read_bytes_index |-> Some(read_bytes + 2 + n * 2)])

\* The end of Record::try_from: the null bitmap and the variable columns out
\* of what follows the column count.
RecordOf(type, has_null_bitmap, has_var_columns, fixed_bytes, number_of_columns, after_count) ==
    LET null_bitmap_length == IF has_null_bitmap THEN (number_of_columns + 7) \div 8 ELSE 0
        read_bytes == 4 + Len(fixed_bytes) + 2 + null_bitmap_length
    IN
    IF null_bitmap_length > Len(after_count) THEN PanicR("split_at: mid > len")
    ELSE
    Let(SplitAt(after_count, null_bitmap_length), LAMBDA split :
    Try(IF has_var_columns THEN VariableColumnsNew(read_bytes, split[2])
        ELSE OkR(<<>>), LAMBDA vc :
    OkR([fixed_bytes |-> fixed_bytes,
         type |-> type,
         null_bitmap |-> IF has_null_bitmap THEN Some(NullBitmapNew(split[1])) ELSE None,
         variable_columns |-> IF has_var_columns THEN Some(vc) ELSE None])))

\* Record::try_from(&[u8]). oc: the build traps on integer overflow
\* (overflow-checks, the default of a debug build); otherwise it wraps.
RecordTryFrom(bytes, oc) ==
    IF Len(bytes) < 1 THEN PanicR("index out of bounds")
    ELSE IF Len(bytes) < 2 THEN PanicR("range start index 2 out of range")
    ELSE IF Len(bytes) < 4 THEN PanicR("unwrap: failed to fill whole buffer")
    ELSE
    LET b0 == bytes[1]
        total == read_u16(Slice(bytes, 2, 4))
        fixed_length_size == IF total >= 4 THEN total - 4 ELSE total + 65532
    IN
    IF total < 4 /\ oc THEN PanicR("attempt to subtract with overflow")
    ELSE IF fixed_length_size = 0 THEN PanicR("not yet implemented: No fixed length data!")
    ELSE IF fixed_length_size > Len(bytes) - 4 THEN PanicR("split_at: mid > len")
    ELSE
    Let(SplitAt(SubSeq(bytes, 5, Len(bytes)), fixed_length_size), LAMBDA split :
    IF Len(split[2]) < 2 THEN PanicR("unwrap: failed to fill whole buffer")
    ELSE RecordOf(RecordTypeOf((b0 \div 2) % 8), (b0 \div 16) % 2 = 1, (b0 \div 32) % 2 = 1,
                  split[1], read_u16(split[2]), SubSeq(split[2], 3, Len(split[2]))))

has_variable_length_columns(record) == IsSome(record.variable_columns)

\* pop_next_null_bit with the bit left unread: the bitmap advances, no column
\* is null.
pop_null_bit_unread(record) ==
    IF IsSome(record.null_bitmap)
    THEN <<FALSE, [record EXCEPT !.null_bitmap =
                      Some(NullBitmapNext(Unwrap(record.null_bitmap))[2])]>>
    ELSE <<FALSE, record>>

\* pop_next_null_bit with the bitmap left where it is: every column reads
\* the same bit.
pop_null_bit_kept(record) ==
    IF IsSome(record.null_bitmap)
    THEN Let(NullBitmapNext(Unwrap(record.null_bitmap)), LAMBDA n :
         <<IF IsSome(n[1]) THEN Unwrap(n[1]) ELSE FALSE, record>>)
    ELSE <<FALSE, record>>

\* Record::pop_next_null_bit: <<the bit, the record with the bitmap advanced>>.
pop_next_null_bit(record) ==
    IF IsSome(record.null_bitmap)
    THEN Let(NullBitmapNext(Unwrap(record.null_bitmap)), LAMBDA n :
         <<IF IsSome(n[1]) THEN Unwrap(n[1]) ELSE FALSE,
           [record EXCEPT !.null_bitmap = Some(n[2])]>>)
    ELSE <<FALSE, record>>

\* Record::parse_bytes_opt(len): ok with <<Option<bytes>, record>>.
parse_bytes_opt(record, len) ==
    Let(pop_next_null_bit(record), LAMBDA p :
    IF p[1] THEN OkR(<<None, p[2]>>)
    ELSE IF len > Len(record.fixed_bytes) THEN PanicR("split_at: mid > len")
    ELSE OkR(<<Some(SplitAt(record.fixed_bytes, len)[1]),
               [p[2] EXCEPT !.fixed_bytes = SplitAt(record.fixed_bytes, len)[2]]>>))

\* Record::parse_bytes(len): ok with <<bytes, record>>.
parse_bytes(record, len) ==
    Try(parse_bytes_opt(record, len), LAMBDA r :
    IF IsSome(r[1]) THEN OkR(<<Unwrap(r[1]), r[2]>>)
    ELSE ErrR("Requested none null bytes but value is null"))

\* end - read_bytes_index on usize, both held as the sign-extended i16 they
\* came from (a negative number stands for 2^64 + itself): "trap" when the
\* subtraction underflows, "huge" for a difference of 2^63 or more, else the
\* difference.
UsizeSub(e, r) ==
    IF (e >= 0) = (r >= 0)
    THEN IF e >= r THEN [k |-> "small", v |-> e - r] ELSE [k |-> "trap", v |-> 0]
    ELSE IF e < 0 THEN [k |-> "huge", v |-> 0]
    ELSE [k |-> "trap", v |-> e - r]

\* The length VariableColumns::next takes: min(end - read_bytes_index, what is
\* left of the variable columns), the difference d wrapped where it underflows.
TakenLength(d, end_index, read_bytes_index, avail) ==
    CASE d.k = "small" -> Min(d.v, avail)
      [] d.k = "huge" -> avail
      [] OTHER -> IF (end_index >= 0) = (read_bytes_index >= 0)
                  THEN avail ELSE Min(d.v, avail)

\* VariableColumns::next: ok with <<Option<bytes>, the advanced iterator>>.
VariableColumnsNext(vc, oc) ==
    IF ~IsSome(vc.read_bytes_index) THEN OkR(<<None, vc>>)
    ELSE IF Len(vc.variable_length_column_lengths) < 2
    THEN OkR(<<None, [vc EXCEPT !.read_bytes_index = None]>>)
    ELSE
    Let(read_i16(vc.variable_length_column_lengths), LAMBDA end_index :
    Let(UsizeSub(end_index, Unwrap(vc.read_bytes_index)), LAMBDA d :
    IF d.k = "trap" /\ oc THEN PanicR("attempt to subtract with overflow")
    ELSE
    Let(SplitAt(vc.variable_columns,
                TakenLength(d, end_index, Unwrap(vc.read_bytes_index),
                            Len(vc.variable_columns))), LAMBDA split :
    OkR(<<Some(split[1]),
          [variable_columns |-> split[2],
           variable_length_column_lengths |->
               SubSeq(vc.variable_length_column_lengths, 3,
                      Len(vc.variable_length_column_lengths)),
           read_bytes_index |-> Some(end_index)]>>))))

EMPTY_SLICE == <<>>

\* Record::parse_variables_bytes_opt: ok with <<Option<bytes>, record>>.
parse_variables_bytes_opt(record, oc) ==
    Let(pop_next_null_bit(record), LAMBDA p :
    IF p[1] THEN OkR(<<None, p[2]>>)
    ELSE IF ~IsSome(record.variable_columns) THEN ErrR("no variable column data")
    ELSE Try(VariableColumnsNext(Unwrap(record.variable_columns), oc), LAMBDA n :
         OkR(<<Some(IF IsSome(n[1]) THEN Unwrap(n[1]) ELSE EMPTY_SLICE),
               [p[2] EXCEPT !.variable_columns = Some(n[2])]>>)))

REPLACEMENT_CHARACTER == 65533

\* encoding_rs::UTF_16LE.decode: one code point per 16-bit unit; a lone
\* surrogate unit and a trailing odd byte become U+FFFD (a surrogate pair is
\* not combined here: the names of the model are in the basic plane).
DecodeUtf16LE(bytes) ==
    [i \in 1..((Len(bytes) + 1) \div 2) |->
        IF 2 * i > Len(bytes) THEN REPLACEMENT_CHARACTER
        ELSE LET u == bytes[2 * i - 1] + 256 * bytes[2 * i] IN
             IF u >= 55296 /\ u <= 57343 THEN REPLACEMENT_CHARACTER ELSE u]

\* encoding_rs::UTF_8.decode on bytes below 128; a byte of 128 or more is
\* taken as a malformed sequence (U+FFFD).
DecodeUtf8(bytes) ==
    [i \in 1..Len(bytes) |-> IF bytes[i] < 128 THEN bytes[i] ELSE REPLACEMENT_CHARACTER]

\* Record::parse_string: ok with <<Option<String>, record>>.
parse_string(record, oc) ==
    Try(parse_variables_bytes_opt(record, oc), LAMBDA r :
    IF IsSome(r[1]) /\ Unwrap(r[1]) # <<>>
    THEN OkR(<<Some(DecodeUtf16LE(Unwrap(r[1]))), r[2]>>)
    ELSE OkR(<<None, r[2]>>))

\* Record::parse_string_from_fixed_bytes(len)
parse_string_from_fixed_bytes(record, len) ==
    Try(parse_bytes(record, len), LAMBDA r : OkR(<<DecodeUtf8(r[1]), r[2]>>))

\* The required primitives: parse_bytes(n) and the value read from the bytes.
parse_i8(record) ==
    Try(parse_bytes(record, 1), LAMBDA r : OkR(<<read_i8(r[1]), r[2]>>))

parse_i16(record) ==
    Try(parse_bytes(record, 2), LAMBDA r : OkR(<<read_i16(r[1]), r[2]>>))

parse_i32(record) ==
    Try(parse_bytes(record, 4), LAMBDA r : OkR(<<read_i32(r[1]), r[2]>>))

parse_i64(record) ==
    Try(parse_bytes(record, 8), LAMBDA r : OkR(<<read_i64(r[1]), r[2]>>))

\* parse_u128 and Uuid::from_u128_le: the uuid is carried as its 16 bytes.
parse_uuid(record) == parse_bytes(record, 16)

parse_bit(record) ==
    Try(parse_bytes(record, 1), LAMBDA r : OkR(<<r[1][1] > 0, r[2]>>))

\* The optional primitives: ok with <<Option<value>, record>>.
parse_i32_opt(record) ==
    Try(parse_bytes_opt(record, 4), LAMBDA r :
    OkR(<<IF IsSome(r[1]) THEN Some(read_i32(Unwrap(r[1]))) ELSE None, r[2]>>))

\* The i64 is carried as its 8 bytes.
parse_i64_opt(record) == parse_bytes_opt(record, 8)

\* Record::parse_decimal_opt(precision, scale): the decimal is carried as its
\* sign, the bytes of its mantissa and its scale.
parse_decimal_opt(record, precision, scale) ==
    Try(parse_bytes_opt(record, 1 + (IF precision <= 9 THEN 4
                                     ELSE IF precision <= 19 THEN 8
                                     ELSE IF precision <= 28 THEN 12
                                     ELSE 16)), LAMBDA r :
    IF ~IsSome(r[1]) THEN OkR(<<None, r[2]>>)
    ELSE IF precision > 19 /\ precision <= 28 THEN PanicR("not yet implemented")
    ELSE OkR(<<Some([positive |-> Unwrap(r[1])[1] # 0,
                     mantissa |-> SubSeq(Unwrap(r[1]), 2, Len(Unwrap(r[1]))),
                     scale |-> scale]),
               r[2]>>))

\* One day in clock ticks of 10/3 ms.
TicksPerDay == 25920000

\* The days chrono's calendar reaches after and before 1900-01-01
\* (NaiveDate::MAX is 262143-12-31 and NaiveDate::MIN is -262144-01-01).
ChronoMaxDays == 95052168
ChronoMinDays == -96440092

\* Days from 0001-01-01 to 1900-01-01.
DaysToEpoch1900 == 693595

\* The date of parse_datetime_opt: days since 1900-01-01 and the milliseconds
\* of the day. (time * 10/3) as i64 rounds toward zero; adding the
\* milliseconds (at most 83 days) cannot overflow, adding the days can.
DateTimeOf(time, days) ==
    LET q == time \div TicksPerDay
        rem == time % TicksPerDay
        ms == IF time >= 0 THEN (rem * 10) \div 3 ELSE (rem * 10 + 2) \div 3
    IN
    IF days > ChronoMaxDays - q \/ days < ChronoMinDays - q
    THEN ErrR("Cannot parse datetime due to overflow")
    ELSE OkR([days |-> q + days, ms |-> ms])

\* Record::parse_datetime_opt
parse_datetime_opt(record) ==
    Try(parse_bytes_opt(record, 8), LAMBDA r :
    IF ~IsSome(r[1]) THEN OkR(<<None, r[2]>>)
    ELSE Try(DateTimeOf(read_i32(SubSeq(Unwrap(r[1]), 1, 4)),
                        read_i32(SubSeq(Unwrap(r[1]), 5, 8))), LAMBDA date :
         OkR(<<Some(date), r[2]>>)))

\* Record::parse_datetime2_opt(scale): the time part is read and dropped; an
\* i24 of days from 0001-01-01 is always within the calendar.
parse_datetime2_opt(record, scale) ==
    Try(parse_bytes_opt(record, 8), LAMBDA r :
    IF ~IsSome(r[1]) THEN OkR(<<None, r[2]>>)
    ELSE
    LET bytes_of_time == IF scale <= 2 THEN 3 ELSE IF scale <= 4 THEN 4 ELSE 5 IN
    OkR(<<Some([days |-> read_i24(SubSeq(Unwrap(r[1]), bytes_of_time + 1, bytes_of_time + 3))
                             - DaysToEpoch1900,
                ms |-> 0]), r[2]>>))

-----------------------------------------------------------------------------
(* lib.rs: Value                                                           *)

\* The SQL type names of the dispatch table, as code point sequences.
S_bit == <<98, 105, 116>>
S_datetime == <<100, 97, 116, 101, 116, 105, 109, 101>>
S_datetime2 == <<100, 97, 116, 101, 116, 105, 109, 101, 50>>
S_tinyint == <<116, 105, 110, 121, 105, 110, 116>>
S_smallint == <<115, 109, 97, 108, 108, 105, 110, 116>>
S_int == <<105, 110, 116>>
S_money == <<109, 111, 110, 101, 121>>
S_bigint == <<98, 105, 103, 105, 110, 116>>
S_nchar == <<110, 99, 104, 97, 114>>
S_nvarchar == <<110, 118, 97, 114, 99, 104, 97, 114>>
S_varchar == <<118, 97, 114, 99, 104, 97, 114>>
S_uniqueidentifier == <<117, 110, 105, 113, 117, 101, 105, 100, 101, 110, 116, 105, 102, 105, 101, 114>>
S_decimal == <<100, 101, 99, 105, 109, 97, 108>>

Value(tag, v) == [tag |-> tag, v |-> v]
ValueNull == [tag |-> "Null", v |-> 0]

\* Option<T>::map_or(Value::Null, Value::T)
MapOrNull(opt, tag) == IF IsSome(opt) THEN Value(tag, Unwrap(opt)) ELSE ValueNull

\* map_or on the result of an optional primitive, `?` on its error.
ParsedOpt(r, tag) ==
    IF ~IsOk(r) THEN r ELSE OkR(<<MapOrNull(r.v[1], tag), r.v[2]>>)

\* `?` on the result of a required primitive, then the Value built from it.
ParsedReq(r, tag) ==
    IF ~IsOk(r) THEN r ELSE OkR(<<Value(tag, r.v[1]), r.v[2]>>)

\* `as usize` of the column's max_length: a negative length is a length no
\* slice has.
AsUsize(n) == IF n < 0 THEN 2147483647 ELSE n

\* Value::parse(column, record): ok with <<Value, record>>.
ValueParse(column, record, oc) ==
    CASE column.type = S_bit -> ParsedReq(parse_bit(record), "Bit")
      [] column.type = S_datetime -> ParsedOpt(parse_datetime_opt(record), "DateTime")
      [] column.type = S_datetime2 ->
             ParsedOpt(parse_datetime2_opt(record, column.scale), "DateTime")
      [] column.type = S_tinyint -> ParsedReq(parse_i8(record), "TinyInt")
      [] column.type = S_smallint -> ParsedReq(parse_i16(record), "SmallInt")
      [] column.type \in {S_int, S_money} -> ParsedOpt(parse_i32_opt(record), "Int")
      [] column.type = S_bigint -> ParsedOpt(parse_i64_opt(record), "BigInt")
      [] column.type = S_nchar ->
             ParsedReq(parse_string_from_fixed_bytes(record, AsUsize(column.max_length)),
                       "String")
      [] column.type \in {S_nvarchar, S_varchar} ->
             ParsedOpt(parse_string(record, oc), "String")
      [] column.type = S_uniqueidentifier -> ParsedReq(parse_uuid(record), "Uuid")
      [] column.type = S_decimal ->
             ParsedOpt(parse_decimal_opt(record, column.precision, column.scale), "Decimal")
      [] OTHER -> ErrR("Unknown column type")

-----------------------------------------------------------------------------
(* lib.rs: PageReader                                                      *)
(*                                                                         *)
(* The byte source is a file: [pages: the sequence of its whole 8192-byte  *)
(* blocks, tail: the number of bytes after the last whole block]. A reader *)
(* is [read_pos: the bytes consumed from the source, page_index,           *)
(* page_cache: PagePointer -> Page]. A Page of the cache is held as the    *)
(* index of the block it was built from, PageOf gives its content: the     *)
(* source is read-only and each block is read once.                        *)

RECURSIVE LeBytes(_, _)
\* The little-endian two's complement bytes of n, width bytes wide.
LeBytes(n, width) ==
    IF width = 0 THEN <<>> ELSE <<n % 256>> \o LeBytes(n \div 256, width - 1)

PageReaderNew == [read_pos |-> 0, page_index |-> 0, page_cache |-> <<>>]

PageOf(file, index) == PageTryFrom(file.pages[index + 1]).v

\* The result of a reader operation: the outcome and the reader after it.
Rd(k, v, rd) == [k |-> k, v |-> v, rd |-> rd]

\* The largest value of page_index and of a page_id, both u16.
U16_MAX == 65535

\* PageReader::read_next_page: read_exact fills the buffer or fails with what
\* was left of the source consumed. v is the index of the block read.
\* `page_index += 1` on a u16: past U16_MAX it panics where overflow is
\* checked, after the bytes were read, and wraps to 0 where it is not.
read_next_page(rd, file, oc) ==
    IF rd.read_pos + PageSize > Len(file.pages) * PageSize
    THEN Rd("err", "failed to fill whole buffer",
            [rd EXCEPT !.read_pos = Len(file.pages) * PageSize + file.tail])
    ELSE IF rd.page_index = U16_MAX /\ oc
    THEN Rd("panic", "attempt to add with overflow",
            [rd EXCEPT !.read_pos = rd.read_pos + PageSize])
    ELSE Rd("ok", rd.read_pos \div PageSize,
            [rd EXCEPT !.read_pos = rd.read_pos + PageSize,
                       !.page_index = (rd.page_index + 1) % (U16_MAX + 1)])

RECURSIVE ReadUpTo(_, _, _, _, _)
\* The loop of read_page, for i in from..=page_pointer.page_id.
ReadUpTo(rd, file, page_pointer, i, oc) ==
    IF i > page_pointer.page_id THEN Rd("ok", 0, rd)
    ELSE Let(read_next_page(rd, file, oc), LAMBDA r :
         IF r.k # "ok" THEN r
         ELSE ReadUpTo([r.rd EXCEPT !.page_cache =
                            (with_page_id(page_pointer, i) :> r.v) @@ r.rd.page_cache],
                       file, page_pointer, i + 1, oc))

\* read_page without the lookup of the cache before the read.
read_page_uncached(rd, file, page_pointer, oc) ==
    IF ~(rd.page_index <= page_pointer.page_id)
    THEN Rd("panic", "Currently the database supports only forward reading", rd)
    ELSE Let(ReadUpTo(rd, file, page_pointer, rd.page_index, oc), LAMBDA r :
         IF r.k # "ok" THEN r
         ELSE Rd("ok", r.rd.page_cache[page_pointer], r.rd))

\* PageReader::read_page: v is the page of the cache, as the index of its block.
read_page(rd, file, page_pointer, oc) ==
    IF page_pointer \in DOMAIN rd.page_cache
    THEN Rd("ok", rd.page_cache[page_pointer], rd)
    ELSE IF ~(rd.page_index <= page_pointer.page_id)
    THEN Rd("panic", "Currently the database supports only forward reading", rd)
    ELSE Let(ReadUpTo(rd, file, page_pointer, rd.page_index, oc), LAMBDA r :
         IF r.k # "ok" THEN r
         ELSE Rd("ok", r.rd.page_cache[page_pointer], r.rd))

-----------------------------------------------------------------------------
(* pages.rs: Page::records and BootPage                                    *)

\* The record of Page::records at index of the sorted slots: from its slot to
\* the next slot, the last one to the end of the page.
RecordAt(page, sorted, index, oc) ==
    LET start == sorted[index]
        end == IF index < Len(sorted) THEN sorted[index + 1] ELSE Len(page.bytes)
    IN
    IF end > Len(page.bytes) \/ start > end THEN PanicR("range index out of range")
    ELSE RecordTryFrom(Slice(page.bytes, start, end), oc)

\* Page::records: one record per slot, in the order of the sorted slots.
records(page, oc) ==
    IF page.header.slot_count * 2 > Len(page.bytes)
    THEN PanicR("range start index out of range")
    ELSE Let(slots(page), LAMBDA sorted :
         Collect(MapSeq(Len(sorted), LAMBDA index : RecordAt(page, sorted, index, oc))))

\* BootPage::try_from on the fields the bootstrap uses.
BootPageTryFrom(bytes) ==
    Try(PageHeaderTryFrom(Slice(bytes, 0, 96)), LAMBDA header :
    Try(PagePointerTryFrom(Slice(bytes, 612, 618)), LAMBDA first_sys_indexes :
    OkR([header |-> header, first_sys_indexes |-> first_sys_indexes])))

-----------------------------------------------------------------------------
(* sys.rs: the catalog entities                                            *)
(*                                                                         *)
(* An entity's try_from is a chain of `let (x, record) = record.parse_*()?`*)
(* steps: ParseFields runs such a chain, given as <<field, kind>> pairs,   *)
(* and returns the fields read. An i64 field is carried as its 8 bytes     *)
(* (the code only compares them for equality).                             *)

\* The string step of the entities: parse_string, None taken as the empty
\* name.
ParseNameStep(record, oc) ==
    Try(parse_string(record, oc), LAMBDA r :
    OkR(<<IF IsSome(r[1]) THEN Unwrap(r[1]) ELSE <<>>, r[2]>>))

\* Syscolpar's name: read only when the record has variable-length columns.
ParseOptionalNameStep(record, oc) ==
    IF has_variable_length_columns(record) THEN parse_string(record, oc)
    ELSE OkR(<<None, record>>)

ParseStep(record, kind, oc) ==
    CASE kind = "i8" -> parse_i8(record)
      [] kind = "i16" -> parse_i16(record)
      [] kind = "i32" -> parse_i32(record)
      [] kind = "i64" -> parse_bytes(record, 8)
      [] kind = "bytes6" -> parse_bytes(record, 6)
      [] kind = "bytes2" -> parse_bytes(record, 2)
      [] kind = "name" -> ParseNameStep(record, oc)
      [] OTHER -> ParseOptionalNameStep(record, oc)

RECURSIVE ParseFields(_, _, _)
\* The steps of fields in their order, each on the record the step before it
\* left: ok with <<the fields read, the record left>>. The steps of the first
\* half, then those of the second half on the record the first half left.
ParseFields(record, fields, oc) ==
    IF Len(fields) = 1
    THEN Try(ParseStep(record, fields[1][2], oc), LAMBDA r :
         OkR(<<fields[1][1] :> r[1], r[2]>>))
    ELSE Try(ParseFields(record, SubSeq(fields, 1, Len(fields) \div 2), oc), LAMBDA first :
         Try(ParseFields(first[2], SubSeq(fields, Len(fields) \div 2 + 1, Len(fields)), oc),
             LAMBDA second :
         OkR(<<first[1] @@ second[1], second[2]>>)))

\* An entity: the fields its try_from reads from the record.
EntityOf(record, fields, oc) ==
    Try(ParseFields(record, fields, oc), LAMBDA r : OkR(r[1]))

SysallocUnitFields ==
    << <<"auid", "i64">>, <<"type", "i8">>, <<"ownerid", "i64">>, <<"status", "i32">>,
       <<"fgid", "i16">>, <<"pgfirst", "bytes6">>, <<"pgroot", "bytes6">>,
       <<"pgfirstiam", "bytes6">>, <<"pcused", "i64">>, <<"pcdata", "i64">>,
       <<"pcreserved", "i64">> >>

SysrowSetFields ==
    << <<"rowsetid", "i64">>, <<"ownertype", "i8">>, <<"idmajor", "i32">>,
       <<"idminor", "i32">>, <<"numpart", "i32">>, <<"status", "i32">>,
       <<"fgidfs", "i16">>, <<"rcrows", "i64">> >>

SysschobjFields ==
    << <<"id", "i32">>, <<"name", "name">>, <<"nsid", "i32">>, <<"nsclass", "i8">>,
       <<"status", "i32">>, <<"type", "bytes2">>, <<"pid", "i32">>, <<"pclass", "i8">> >>

SysscalartypeFields ==
    << <<"id", "i32">>, <<"schid", "i32">>, <<"name", "name">>, <<"xtype", "i8">>,
       <<"length", "i16">>, <<"prec", "i8">>, <<"scale", "i8">>,
       <<"collationid", "i32">>, <<"status", "i32">> >>

SyscolparFields ==
    << <<"id", "i32">>, <<"number", "i16">>, <<"colid", "i32">>,
       <<"name", "optional name">>, <<"xtype", "i8">>, <<"utype", "i32">>,
       <<"length", "i16">>, <<"prec", "i8">>, <<"scale", "i8">>,
       <<"collationid", "i32">>, <<"status", "i32">>, <<"maxinrow", "i16">>,
       <<"xmlns", "i32">>, <<"dflt", "i32">>, <<"chk", "i32">> >>

\* char::is_whitespace on the code points below 128, and U+00A0.
IsWhitespace(c) == c \in {9, 10, 11, 12, 13, 32, 133, 160}

RECURSIVE TrimStart(_)
TrimStart(s) ==
    IF s # <<>> /\ IsWhitespace(Head(s)) THEN TrimStart(Tail(s)) ELSE s

RECURSIVE TrimEnd(_)
TrimEnd(s) ==
    IF s # <<>> /\ IsWhitespace(s[Len(s)]) THEN TrimEnd(SubSeq(s, 1, Len(s) - 1)) ELSE s

\* str::trim: whitespace removed at both ends.
Trim(s) == TrimEnd(TrimStart(s))

\* String::from_utf8 of two bytes: two ASCII bytes, or one two-byte sequence.
Utf8OfTwoBytes(bytes) ==
    IF bytes[1] < 128 /\ bytes[2] < 128 THEN OkR(bytes)
    ELSE IF bytes[1] >= 194 /\ bytes[1] <= 223 /\ bytes[2] >= 128 /\ bytes[2] <= 191
    THEN OkR(<<(bytes[1] - 192) * 64 + (bytes[2] - 128)>>)
    ELSE PanicR("unwrap: invalid utf-8 sequence")

\* Sysschobj::try_from: the 2-byte type through String::from_utf8(..).unwrap()
\* and trim().
SysschobjTryFrom(record, oc) ==
    Try(EntityOf(record, SysschobjFields, oc), LAMBDA fields :
    Try(Utf8OfTwoBytes(fields.type), LAMBDA type :
    OkR([fields EXCEPT !.type = Trim(type)])))

\* <$t>::try_from(record) for the entity kind t.
EntityTryFrom(t, record, oc) ==
    IF t = "Sysschobj" THEN SysschobjTryFrom(record, oc)
    ELSE EntityOf(record,
                  CASE t = "SysallocUnit" -> SysallocUnitFields
                    [] t = "SysrowSet" -> SysrowSetFields
                    [] t = "Sysscalartype" -> SysscalartypeFields
                    [] OTHER -> SyscolparFields,
                  oc)

\* The values of the results that are ok, in their order.
OkValues(results) ==
    Let(SelectSeq(results, IsOk), LAMBDA oks : [i \in 1..Len(oks) |-> oks[i].v])

\* records.into_iter().map(<$t>::try_from).filter_map(Result::ok): an Err is
\* dropped, a panic is not.
EntitiesOf(t, recs, oc) ==
    Let(MapSeq(Len(recs), LAMBDA i : EntityTryFrom(t, recs[i], oc)), LAMBDA results :
    Let({i \in 1..Len(results) : results[i].k = "panic"}, LAMBDA panics :
    IF panics # {} THEN results[Least(panics)] ELSE OkR(OkValues(results))))

\* page.records() ... collect() of one page.
PageEntities(t, page, oc) ==
    Try(records(page, oc), LAMBDA recs : EntitiesOf(t, recs, oc))

SYSROWEST_AUID == 327680
SYSSCHOBJS_IDMAJOR == 34
SYSCOLPARS_IDMAJOR == 41
SYSSCALARTYPE_IDMAJOR == 50

\* iter().find(pred): the first element that satisfies P, as an Option.
Find(seq, P(_)) ==
    Let({i \in 1..Len(seq) : P(seq[i])}, LAMBDA hits :
    IF hits = {} THEN None ELSE Some(seq[Least(hits)]))

RECURSIVE ParseChainEndingAtEof(_, _, _, _, _, _, _)
\* A chain walk that takes a failed read for the end of the chain.
ParseChainEndingAtEof(t, rd, file, page_pointer, parsed_records, seen, oc) ==
    IF page_pointer \in seen THEN Rd("hang", parsed_records, rd)
    ELSE
    Let(read_page(rd, file, page_pointer, oc), LAMBDA r :
    IF r.k = "err" THEN Rd("ok", parsed_records, r.rd)
    ELSE IF r.k # "ok" THEN r
    ELSE
    Let(PageOf(file, r.v), LAMBDA page :
    Let(PageEntities(t, page, oc), LAMBDA ents :
    IF ~IsOk(ents) THEN Rd(ents.k, ents.v, r.rd)
    ELSE IF IsSome(next_page_pointer(page))
    THEN ParseChainEndingAtEof(t, r.rd, file, Unwrap(next_page_pointer(page)),
                               parsed_records \o ents.v, seen \cup {page_pointer}, oc)
    ELSE Rd("ok", parsed_records \o ents.v, r.rd))))

RECURSIVE ParseChain(_, _, _, _, _, _, _)
\* The loop of parse_page_records! and parse_from_sysrow_set!: read the page,
\* extend the parsed records, follow next_page_pointer. seen holds the
\* pointers the walk has followed: a pointer followed twice is served from
\* the cache as before, the loop never ends (k = "hang").
ParseChain(t, rd, file, page_pointer, parsed_records, seen, oc) ==
    IF page_pointer \in seen THEN Rd("hang", parsed_records, rd)
    ELSE
    Let(read_page(rd, file, page_pointer, oc), LAMBDA r :
    IF r.k # "ok" THEN r
    ELSE
    Let(PageOf(file, r.v), LAMBDA page :
    Let(PageEntities(t, page, oc), LAMBDA ents :
    IF ~IsOk(ents) THEN Rd(ents.k, ents.v, r.rd)
    ELSE IF IsSome(next_page_pointer(page))
    THEN ParseChain(t, r.rd, file, Unwrap(next_page_pointer(page)),
                    parsed_records \o ents.v, seen \cup {page_pointer}, oc)
    ELSE Rd("ok", parsed_records \o ents.v, r.rd))))

parse_page_records(t, rd, file, page_pointer, oc) ==
    ParseChain(t, rd, file, page_pointer, <<>>, {}, oc)

parse_from_sysrow_set(t, rd, file, sysrow_set, sysalloc_units, oc) ==
    IF ~IsSome(sysrow_set) THEN Rd("panic", "unwrap on None: no row set", rd)
    ELSE
    Let(Find(sysalloc_units,
             LAMBDA unit : unit.auid = Unwrap(sysrow_set).rowsetid /\ unit.type = 1),
        LAMBDA unit :
    IF ~IsSome(unit) THEN Rd("panic", "unwrap on None: no allocation unit", rd)
    ELSE parse_page_records(t, rd, file, PagePointerTryFrom(Unwrap(unit).pgfirst).v, oc))

\* The row set of a system table among the rows of sysrowsets.
SysRowSetOf(sysrow_sets, idmajor) ==
    Find(sysrow_sets, LAMBDA row : row.idmajor = idmajor /\ row.idminor = 1)

\* The end of BaseTableData::parse: the three system tables, read through
\* their row sets, by the reader rd.
ParseSystemTables(file, units, sysrow_sets, rd, oc) ==
    Let(parse_from_sysrow_set("Sysschobj", rd, file,
                              SysRowSetOf(sysrow_sets, SYSSCHOBJS_IDMAJOR), units, oc),
        LAMBDA sysschobjs :
    IF sysschobjs.k # "ok" THEN sysschobjs
    ELSE
    Let(parse_from_sysrow_set("Sysscalartype", sysschobjs.rd, file,
                              SysRowSetOf(sysrow_sets, SYSSCALARTYPE_IDMAJOR), units, oc),
        LAMBDA sysscalartypes :
    IF sysscalartypes.k # "ok" THEN sysscalartypes
    ELSE
    Let(parse_from_sysrow_set("Syscolpar", sysscalartypes.rd, file,
                              SysRowSetOf(sysrow_sets, SYSCOLPARS_IDMAJOR), units, oc),
        LAMBDA syscolpars :
    IF syscolpars.k # "ok" THEN syscolpars
    ELSE Rd("ok",
            [sysalloc_units |-> units,
             sysrow_sets |-> sysrow_sets,
             sysschobjs |-> sysschobjs.v,
             sysscalartypes |-> sysscalartypes.v,
             syscolpars |-> syscolpars.v],
            syscolpars.rd))))

\* BaseTableData::parse: v is the BaseTableData. Of sysrowsets the first page
\* only is read.
BaseTableDataParse(rd, file, boot_page, oc) ==
    Let(parse_page_records("SysallocUnit", rd, file, boot_page.first_sys_indexes, oc),
        LAMBDA units :
    IF units.k # "ok" THEN units
    ELSE
    Let(Find(units.v, LAMBDA unit : unit.auid = LeBytes(SYSROWEST_AUID, 8)),
        LAMBDA rowsets_unit :
    IF ~IsSome(rowsets_unit) THEN Rd("panic", "unwrap on None: no sysrowsets unit", units.rd)
    ELSE
    Let(read_page(units.rd, file, PagePointerTryFrom(Unwrap(rowsets_unit).pgfirst).v, oc),
        LAMBDA p :
    IF p.k # "ok" THEN p
    ELSE
    Let(PageEntities("SysrowSet", PageOf(file, p.v), oc), LAMBDA sysrow_sets :
    IF ~IsOk(sysrow_sets) THEN Rd(sysrow_sets.k, sysrow_sets.v, p.rd)
    ELSE ParseSystemTables(file, units.v, sysrow_sets.v, p.rd, oc)))))

\* Sysschobj entries of the `objects$` view.
objects_dollar(btd) ==
    SelectSeq(btd.sysschobjs, LAMBDA o : o.nsclass = 0 /\ o.pclass = 1)

S_U == <<85>>

\* The names of the entries objs, in their order.
NamesOf(objs) == [i \in 1..Len(objs) |-> objs[i].name]

\* The names of all entries of `objects$`, whatever their type.
object_names(btd) == NamesOf(objects_dollar(btd))

\* BaseTableData::tables
tables(btd) ==
    NamesOf(SelectSeq(objects_dollar(btd), LAMBDA o : o.type = S_U))

\* The layout attributes Value::parse reads from a Column (max_length,
\* precision, scale): the column parameter's length, prec and scale, the
\* precision and the scale as u8.
ColumnAttrs(c) ==
    [max_length |-> c.length, precision |-> c.prec % 256, scale |-> c.scale % 256]

\* The scalar type of a column parameter, as an Option.
TypeOf(btd, c) == Find(btd.sysscalartypes, LAMBDA st : st.xtype = c.xtype)

\* The Vec<Column> of the column parameters cols: ok, or the panic of
\* expect("Should have type for column").
ColumnsFrom(btd, cols) ==
    IF \E i \in 1..Len(cols) : ~IsSome(TypeOf(btd, cols[i]))
    THEN PanicR("Should have type for column")
    ELSE OkR([i \in 1..Len(cols) |->
                 [name |-> Unwrap(cols[i].name),
                  type |-> Unwrap(TypeOf(btd, cols[i])).name] @@ ColumnAttrs(cols[i])])

\* The columns of BaseTableData::table.
ColumnsOf(btd, table) ==
    ColumnsFrom(btd, SelectSeq(btd.syscolpars,
                               LAMBDA c : c.number = 0 /\ c.id = table.id /\ IsSome(c.name)))

\* BaseTableData::table: ok with Option<Table>.
table(btd, table_name) ==
    Let(Find(objects_dollar(btd), LAMBDA o : o.name = table_name), LAMBDA found :
    IF ~IsSome(found) THEN OkR(None)
    ELSE Try(ColumnsOf(btd, Unwrap(found)), LAMBDA columns :
         OkR(Some([objects_dollar |-> Unwrap(found), columns |-> columns]))))

RECURSIVE InsertByNumpart(_, _)
InsertByNumpart(p, sorted) ==
    IF sorted = <<>> THEN <<p>>
    ELSE IF p.numpart < Head(sorted).numpart THEN <<p>> \o sorted
    ELSE <<Head(sorted)>> \o InsertByNumpart(p, Tail(sorted))

\* The partitions in the order of the catalog.
KeepOrder(ps) == ps

RECURSIVE SortByNumpart(_)
\* sort_by_key(|p| p.numpart): stable, ascending.
SortByNumpart(ps) ==
    IF ps = <<>> THEN <<>>
    ELSE InsertByNumpart(ps[Len(ps)], SortByNumpart(SubSeq(ps, 1, Len(ps) - 1)))

\* The partitions of Table::page_pointers, sorted.
Partitions(btd, tbl) ==
    SortByNumpart(SelectSeq(btd.sysrow_sets,
        LAMBDA sysrow : sysrow.idmajor = tbl.objects_dollar.id /\ sysrow.idminor <= 1))

\* The allocation unit Table::page_pointers finds for a partition.
UnitOf(btd, partition) ==
    Find(btd.sysalloc_units,
         LAMBDA unit : unit.ownerid = partition.rowsetid /\ unit.type = 1)

\* The partitions that have such a unit, in the sorted order.
PartitionsWithUnit(btd, tbl) ==
    SelectSeq(Partitions(btd, tbl), LAMBDA partition : IsSome(UnitOf(btd, partition)))

\* The numpart of each of the partitions ps.
NumpartsOf(ps) == [i \in 1..Len(ps) |-> ps[i].numpart]

\* Table::page_pointers
page_pointers(btd, tbl) ==
    Let(PartitionsWithUnit(btd, tbl), LAMBDA ps :
    [i \in 1..Len(ps) |-> PagePointerTryFrom(Unwrap(UnitOf(btd, ps[i])).pgfirst).v])

\* MdfDatabase::column_names: ok with Option<Vec<String>>.
column_names(btd, table_name) ==
    Try(table(btd, table_name), LAMBDA t :
    IF ~IsSome(t) THEN OkR(None) ELSE OkR(Some(NamesOf(Unwrap(t).columns))))

\* MdfDatabase::table_names
table_names(btd) == tables(btd)

RECURSIVE SkipHeaders(_, _, _, _)
\* The ten read_next_page calls of from_read: v is the index of the last block
\* read, whose bytes are left in the buffer.
SkipHeaders(rd, file, n, oc) ==
    Let(read_next_page(rd, file, oc), LAMBDA r :
    IF r.k # "ok" \/ n = 1 THEN r ELSE SkipHeaders(r.rd, file, n - 1, oc))

\* MdfDatabase::from_read: v is the BaseTableData of the handle.
from_read(file, oc) ==
    Let(SkipHeaders(PageReaderNew, file, 10, oc), LAMBDA boot :
    IF boot.k # "ok" THEN boot
    ELSE BaseTableDataParse(boot.rd, file, BootPageTryFrom(file.pages[boot.v + 1]).v, oc))

-----------------------------------------------------------------------------
(* lib.rs: the row stream                                                  *)
(*                                                                         *)
(* A Row is [columns: the BTreeMap, as a function from the names]. The     *)
(* stream's items carry, beside the row, where the row came from (slot,    *)
(* record type, whether a column failed, and chain, step, numpart of the   *)
(* page walk): history the properties read, the code does not.             *)

RECURSIVE ParseColumns(_, _, _, _)
\* The loop over table.columns for one record: the map filled so far, and
\* whether the loop was left by the break of a failed column.
ParseColumns(cols, record, columns, oc) ==
    IF cols = <<>> THEN OkR([columns |-> columns, failed |-> FALSE])
    ELSE Let(ValueParse(Head(cols), record, oc), LAMBDA r :
         IF r.k = "panic" THEN r
         ELSE IF r.k = "err" THEN OkR([columns |-> columns, failed |-> TRUE])
         ELSE ParseColumns(Tail(cols), r.v[2],
                           (Head(cols).name :> r.v[1]) @@ columns, oc))

\* rows.push(Ok(Row { columns })) after the loop over the columns.
RowOfRecord(cols, record, slot, oc) ==
    Try(ParseColumns(cols, record, <<>>, oc), LAMBDA r :
    OkR([row |-> [columns |-> r.columns],
         slot |-> slot, type |-> record.type, failed |-> r.failed]))

\* The closure of flat_map on a page that was read: the rows of the page.
RowsOfPage(cols, page, oc) ==
    Try(records(page, oc), LAMBDA recs :
    Let(slots(page), LAMBDA sorted :
    Collect(MapSeq(Len(recs), LAMBDA i : RowOfRecord(cols, recs[i], sorted[i], oc)))))

\* PageReader::read_pages
read_pages(pointers, numparts) ==
    [page_pointers |-> pointers, current_page |-> None,
     numparts |-> numparts, chain |-> 0, step |-> 0]

\* The pointer PageStream::next_page goes to: the next_page_pointer of the
\* page at hand, else the next of the first-page pointers.
NextPointer(ps, file) ==
    IF IsSome(ps.current_page)
    THEN next_page_pointer(PageOf(file, Unwrap(ps.current_page)))
    ELSE IF ps.page_pointers # <<>> THEN Some(Head(ps.page_pointers))
    ELSE None

\* The page stream after current_page.take() and, without a page at hand,
\* page_pointers.next().
Taken(ps, page_pointer) ==
    [ps EXCEPT !.current_page = None,
               !.page_pointers =
                   IF IsSome(ps.current_page) \/ ps.page_pointers = <<>> THEN @ ELSE Tail(@),
               !.chain = IF IsSome(ps.current_page) \/ ~IsSome(page_pointer) THEN @ ELSE @ + 1,
               !.step = IF IsSome(ps.current_page) THEN @ + 1 ELSE 1]

\* PageStream::next_page returning None for a page that cannot be read.
next_page_ending_at_error(ps, rd, file, oc) ==
    Let(NextPointer(ps, file), LAMBDA page_pointer :
    IF ~IsSome(page_pointer)
    THEN [k |-> "none", v |-> 0, rd |-> rd, ps |-> Taken(ps, page_pointer)]
    ELSE Let(read_page(rd, file, Unwrap(page_pointer), oc), LAMBDA r :
         [k |-> IF r.k = "err" THEN "none" ELSE r.k, v |-> r.v, rd |-> r.rd,
          ps |-> IF r.k = "ok"
                 THEN [Taken(ps, page_pointer) EXCEPT !.current_page = Some(r.v)]
                 ELSE Taken(ps, page_pointer)]))

\* PageStream::next_page: k is "none" (the stream returns None), or the
\* outcome of read_page; ps is the page stream after the call.
next_page(ps, rd, file, oc) ==
    Let(NextPointer(ps, file), LAMBDA page_pointer :
    IF ~IsSome(page_pointer)
    THEN [k |-> "none", v |-> 0, rd |-> rd, ps |-> Taken(ps, page_pointer)]
    ELSE Let(read_page(rd, file, Unwrap(page_pointer), oc), LAMBDA r :
         [k |-> r.k, v |-> r.v, rd |-> r.rd,
          ps |-> IF r.k = "ok"
                 THEN [Taken(ps, page_pointer) EXCEPT !.current_page = Some(r.v)]
                 ELSE Taken(ps, page_pointer)]))

\* The provenance of the rows of the page the stream is on.
Tagged(items, ps) ==
    [i \in 1..Len(items) |->
        items[i] @@ [chain |-> ps.chain, step |-> ps.step,
                     numpart |-> ps.numparts[ps.chain]]]

\* What a poll returns: k is "item", "end", "panic" or "hang".
Polled(k, v, inner, ps, rd) == [k |-> k, v |-> v, inner |-> inner, ps |-> ps, rd |-> rd]

\* Where a walk without rows stands: the page at hand, the first-page
\* pointers left, the pages read.
WalkAt(ps, rd) == <<ps.current_page, Len(ps.page_pointers), rd.page_index>>

RECURSIVE PollLoop(_, _, _, _, _, _, _)
\* FlatMap::poll_next over the page stream: the next row of the page at hand,
\* else the next page and its rows, until a row is there or the page stream
\* returns None. seen holds where the walk has stood since the last row: a
\* walk that stands there again cycles over pages without rows (k = "hang").
PollLoop(cols, inner, ps, rd, file, seen, oc) ==
    IF inner # <<>> THEN Polled("item", Head(inner), Tail(inner), ps, rd)
    ELSE IF WalkAt(ps, rd) \in seen THEN Polled("hang", 0, inner, ps, rd)
    ELSE
    Let(next_page(ps, rd, file, oc), LAMBDA n :
    CASE n.k = "none" -> Polled("end", 0, <<>>, n.ps, n.rd)
      [] n.k = "panic" -> Polled("panic", n.v, <<>>, n.ps, n.rd)
      [] n.k = "err" ->
           PollLoop(cols, <<>>, n.ps, n.rd, file, seen \cup {WalkAt(ps, rd)}, oc)
      [] OTHER ->
           Let(RowsOfPage(cols, PageOf(file, n.v), oc), LAMBDA rows :
           IF ~IsOk(rows) THEN Polled("panic", rows.v, <<>>, n.ps, n.rd)
           ELSE PollLoop(cols, Tagged(rows.v, n.ps), n.ps, n.rd, file,
                         seen \cup {WalkAt(ps, rd)}, oc)))

RECURSIVE InsertName(_, _)
\* The order of String: by code point, a prefix before its extensions.
NameLess(a, b) ==
    \E i \in 1..(Min(Len(a), Len(b)) + 1) :
        /\ \A j \in 1..(i - 1) : a[j] = b[j]
        /\ \/ i > Len(a) /\ i <= Len(b)
           \/ i <= Len(a) /\ i <= Len(b) /\ a[i] < b[i]

InsertName(x, sorted) ==
    IF sorted = <<>> THEN <<x>>
    ELSE IF NameLess(x, Head(sorted)) THEN <<x>> \o sorted
    ELSE <<Head(sorted)>> \o InsertName(x, Tail(sorted))

RECURSIVE SortedNames(_)
\* The keys of a BTreeMap in the order its iterator visits them.
SortedNames(names) ==
    IF names = {} THEN <<>>
    ELSE Let(CHOOSE n \in names : TRUE, LAMBDA x : InsertName(x, SortedNames(names \ {x})))

\* Row::values: self.columns.into_iter().collect()
Row_values(row) ==
    Let(SortedNames(DOMAIN row.columns), LAMBDA keys :
    [i \in 1..Len(keys) |-> <<keys[i], row.columns[keys[i]]>>])

\* Row::value
Row_value(row, column_name) ==
    IF column_name \in DOMAIN row.columns THEN Some(row.columns[column_name]) ELSE None

-----------------------------------------------------------------------------
(* The database files of the model: builders that lay records and pages    *)
(* out as the decoders read them.                                          *)

RECURSIVE Concat(_)
Concat(seqs) == IF seqs = <<>> THEN <<>> ELSE Head(seqs) \o Concat(Tail(seqs))

RECURSIVE EndOffsets(_, _)
\* The end-offset table of the variable columns vars, the first of which
\* starts at record offset base.
EndOffsets(base, vars) ==
    IF vars = <<>> THEN <<>>
    ELSE LeBytes(base + Len(Head(vars)), 2) \o EndOffsets(base + Len(Head(vars)), Tail(vars))

\* The bytes of a null bitmap with the bits (0 or 1) of bits, in Lsb0 order.
BitmapBytes(bits) ==
    [k \in 1..((Len(bits) + 7) \div 8) |->
        LET Bit(i) == IF 8 * (k - 1) + i + 1 <= Len(bits)
                      THEN bits[8 * (k - 1) + i + 1] * (2 ^ i) ELSE 0
        IN Bit(0) + Bit(1) + Bit(2) + Bit(3) + Bit(4) + Bit(5) + Bit(6) + Bit(7)]

\* A record: type is the number of its record type, bits its null bitmap
\* (None: no bitmap, status bit 4 clear), vars its variable columns (None: no
\* variable-length area, status bit 5 clear).
MkRecord(type, fixed, bits, vars) ==
    LET bitmap == IF IsSome(bits) THEN BitmapBytes(Unwrap(bits)) ELSE <<>>
        ncols == IF IsSome(bits) THEN Len(Unwrap(bits)) ELSE 0
        status == type * 2 + (IF IsSome(bits) THEN 16 ELSE 0) + (IF IsSome(vars) THEN 32 ELSE 0)
        head == <<status, 0>> \o LeBytes(4 + Len(fixed), 2) \o fixed
                    \o LeBytes(ncols, 2) \o bitmap
    IN IF ~IsSome(vars) THEN head
       ELSE head \o LeBytes(Len(Unwrap(vars)), 2)
                 \o EndOffsets(Len(head) + 2 + 2 * Len(Unwrap(vars)), Unwrap(vars))
                 \o Concat(Unwrap(vars))

\* A page with the next-page pointer next (page_id 0: none) and one record per
\* entry of recs, [off, bytes]; the slot array lists the offsets in the order
\* of recs.
MkPage(next, recs) ==
    LET n == Len(recs)
        head == LeBytes(next.page_id, 4) \o LeBytes(next.file_id, 2) \o LeBytes(n, 2)
        ByteAt(o) ==
            IF o >= 16 /\ o < 24 THEN head[o - 15]
            ELSE IF o >= PageSize - 2 * n
            THEN LeBytes(recs[((o - (PageSize - 2 * n)) \div 2) + 1].off, 2)[(o % 2) + 1]
            ELSE IF \E k \in 1..n : o >= recs[k].off /\ o < recs[k].off + Len(recs[k].bytes)
            THEN LET k == CHOOSE k \in 1..n :
                               o >= recs[k].off /\ o < recs[k].off + Len(recs[k].bytes)
                 IN recs[k].bytes[o - recs[k].off + 1]
            ELSE 0
    IN SubSeq([i \in 1..PageSize |-> ByteAt(i - 1)], 1, PageSize)

NoPointer == PagePointer(0, 0)

\* The records laid out one after the other from offset 96, in slot order.
RECURSIVE LayOut(_, _)
LayOut(off, recs) ==
    IF recs = <<>> THEN <<>>
    ELSE <<[off |-> off, bytes |-> Head(recs)]>> \o LayOut(off + Len(Head(recs)), Tail(recs))

Reverse(s) == [i \in 1..Len(s) |-> s[Len(s) + 1 - i]]

\* A UTF-16LE string of code points below 65536.
Utf16(name) == Concat([i \in 1..Len(name) |-> LeBytes(name[i], 2)])

PointerBytes(ptr) == LeBytes(ptr.page_id, 4) \o LeBytes(ptr.file_id, 2)

\* The boot page: first_sys_indexes at offset 612.
MkBootPage(first_sys_indexes) ==
    SubSeq([i \in 1..PageSize |->
               IF i - 1 >= 612 /\ i - 1 < 618 THEN PointerBytes(first_sys_indexes)[i - 612] ELSE 0],
           1, PageSize)

ZeroPage == SubSeq([i \in 1..PageSize |-> 0], 1, PageSize)

Zeros(n) == [i \in 1..n |-> 0]

\* The catalog records: every column present (a null bitmap of clear bits).
RecAllocUnit(auid, type, ownerid, pgfirst) ==
    MkRecord(0,
             LeBytes(auid, 8) \o LeBytes(type, 1) \o LeBytes(ownerid, 8) \o LeBytes(0, 4)
                 \o LeBytes(1, 2) \o PointerBytes(pgfirst) \o PointerBytes(NoPointer)
                 \o PointerBytes(NoPointer) \o Zeros(24),
             Some(Zeros(12)), None)

RecRowSet(rowsetid, idmajor, idminor, numpart) ==
    MkRecord(0,
             LeBytes(rowsetid, 8) \o LeBytes(1, 1) \o LeBytes(idmajor, 4)
                 \o LeBytes(idminor, 4) \o LeBytes(numpart, 4) \o Zeros(14),
             Some(Zeros(18)), None)

RecSchobj(id, name, nsclass, type, pclass) ==
    MkRecord(0,
             LeBytes(id, 4) \o LeBytes(1, 4) \o LeBytes(nsclass, 1) \o LeBytes(0, 4)
                 \o type \o LeBytes(0, 4) \o LeBytes(pclass, 1),
             Some(Zeros(11)), Some(<<Utf16(name)>>))

\* The record with the record type GhostData (6) in its status byte.
Ghost(record) == [record EXCEPT ![1] = @ + 12]

\* The record with the null bit of its first column set.
FirstColumnNull(record, fixed_length) == [record EXCEPT ![4 + fixed_length + 2 + 1] = @ + 1]

RecScalartype(id, name, xtype) ==
    MkRecord(0,
             LeBytes(id, 4) \o LeBytes(4, 4) \o LeBytes(xtype, 1) \o Zeros(12),
             Some(Zeros(13)), Some(<<Utf16(name)>>))

RecColpar(id, number, colid, name, xtype, length, prec, scale) ==
    MkRecord(0,
             LeBytes(id, 4) \o LeBytes(number, 2) \o LeBytes(colid, 4) \o LeBytes(xtype, 1)
                 \o LeBytes(0, 4) \o LeBytes(length, 2) \o LeBytes(prec, 1)
                 \o LeBytes(scale, 1) \o Zeros(22),
             Some(Zeros(16)), IF IsSome(name) THEN Some(<<Utf16(Unwrap(name))>>) ELSE None)

\* A page of records laid out from offset 96, the slot array in slot order.
PageOfRecords(next, recs) == MkPage(next, LayOut(96, recs))

\* The same page with the slot array in the reverse order.
PageOfRecordsReversed(next, recs) == MkPage(next, Reverse(LayOut(96, recs)))

-----------------------------------------------------------------------------
(* The files. One catalog: the tables T (columns n nvarchar, i int, b bit, *)
(* two partitions), B (d datetime, s smallint), F (q float, a type the     *)
(* dispatch table lacks) and Z (a column whose xtype has no scalar type),  *)
(* the view V (no row set), and the objects S and P outside of `objects$`. *)
(* Blocks 0..8 are header pages, 9 is the boot page, 10 sysallocunits,     *)
(* 11 sysrowsets, 12 -> 13 sysschobjs, 14 sysscalartypes, 15 syscolpars,   *)
(* 16 -> 17 the first partition of T, 18 its second, 19 B, 20 F.           *)

P1(page_id) == PagePointer(page_id, 1)

N_T == <<84>>
N_V == <<86>>
N_S == <<83>>
N_B == <<66>>
N_F == <<70>>
N_P == <<80>>
N_Z == <<90>>
N_X == <<88>>
N_G == <<71>>
N_N == <<78>>
S_float == <<102, 108, 111, 97, 116>>

\* The names the calls of the model are made with: the objects of the
\* catalog and a name it does not hold.
TableNameArgs == {N_T, N_V, N_S, N_B, N_F, N_P, N_Z, N_X}

\* Block 10, sysallocunits. bptr: the first page of B.
AllocUnitsPage(bptr, with_colpars) ==
    PageOfRecords(NoPointer,
        << RecAllocUnit(1001, 1, 0, P1(12)),
           RecAllocUnit(SYSROWEST_AUID, 1, 0, P1(11)),
           RecAllocUnit(1002, 1, 0, P1(14)) >>
        \o (IF with_colpars THEN <<RecAllocUnit(1003, 1, 0, P1(15))>> ELSE <<>>)
        \o << RecAllocUnit(2000, 2, 3001, P1(5)),
              RecAllocUnit(2001, 1, 3001, P1(16)),
              RecAllocUnit(2002, 1, 3002, P1(18)),
              RecAllocUnit(2003, 1, 3003, bptr),
              RecAllocUnit(2004, 1, 3004, P1(20)),
              RecAllocUnit(2005, 1, 3005, P1(12)) >>)

\* Block 11, sysrowsets: the partitions of T with numpart 2 before numpart 1,
\* and a row set of an index of T (idminor 2).
RowSetRecords ==
    << RecRowSet(1001, SYSSCHOBJS_IDMAJOR, 1, 1),
       RecRowSet(1002, SYSSCALARTYPE_IDMAJOR, 1, 1),
       RecRowSet(1003, SYSCOLPARS_IDMAJOR, 1, 1),
       RecRowSet(3005, 100, 2, 1),
       RecRowSet(3002, 100, 0, 2),
       RecRowSet(3001, 100, 0, 1),
       RecRowSet(3003, 104, 1, 1),
       RecRowSet(3004, 105, 0, 1) >>

RowSetsPage == PageOfRecords(NoPointer, RowSetRecords)

\* sysrowsets on two pages: block 11 with the first six row sets, its
\* next-page pointer on block 21 with the row sets of B and F.
RowSetsPage11 == PageOfRecords(P1(21), SubSeq(RowSetRecords, 1, 6))

RowSetsPage21 == PageOfRecords(NoPointer, SubSeq(RowSetRecords, 7, 8))

\* Blocks 12 and 13, sysschobjs; the slot array of block 12 is in descending
\* order.
SchobjsPage12 ==
    PageOfRecordsReversed(P1(13),
        << RecSchobj(100, N_T, 0, <<85, 32>>, 1),
           RecSchobj(101, N_V, 0, <<86, 32>>, 1),
           RecSchobj(102, N_S, 1, <<85, 32>>, 1) >>)

SchobjsPage13(next, more) ==
    PageOfRecords(next,
        << RecSchobj(104, N_B, 0, <<85, 32>>, 1),
           RecSchobj(105, N_F, 0, <<32, 85>>, 1),
           RecSchobj(103, N_P, 0, <<85, 32>>, 0),
           RecSchobj(106, N_Z, 0, <<85, 32>>, 1) >> \o more)

\* Block 14, sysscalartypes.
ScalartypesPage ==
    PageOfRecords(NoPointer,
        << RecScalartype(231, S_nvarchar, 231),
           RecScalartype(56, S_int, 56),
           RecScalartype(104, S_bit, 104),
           RecScalartype(61, S_datetime, 61),
           RecScalartype(52, S_smallint, 52),
           RecScalartype(62, S_float, 62) >>)

\* Block 15, syscolpars: beside the columns, a parameter (number 1) and a
\* record without name.
ColparsPage ==
    PageOfRecords(NoPointer,
        << RecColpar(100, 0, 1, Some(<<110>>), 231, 8, 0, 0),
           RecColpar(100, 1, 1, Some(<<112>>), 56, 4, 10, 0),
           RecColpar(100, 0, 2, Some(<<105>>), 56, 4, 10, 0),
           RecColpar(104, 0, 1, Some(<<100>>), 61, 8, 23, 3),
           RecColpar(100, 0, 3, Some(<<98>>), 104, 1, 1, 0),
           RecColpar(100, 0, 4, None, 56, 4, 10, 0),
           RecColpar(104, 0, 2, Some(<<115>>), 52, 2, 5, 0),
           RecColpar(105, 0, 1, Some(<<113>>), 62, 8, 53, 0),
           RecColpar(101, 0, 1, Some(<<118>>), 56, 4, 10, 0),
           RecColpar(106, 0, 1, Some(<<122>>), 99, 4, 10, 0) >>)

\* A record of T: the null bits of n, i, b and, unless vars is None, n.
RecT(type, i, b, bits, vars) == MkRecord(type, LeBytes(i, 4) \o LeBytes(b, 1), Some(bits), vars)

\* A record of B: d = (time, days), s.
RecB(time, days, s) ==
    MkRecord(0, LeBytes(time, 4) \o LeBytes(days, 4) \o LeBytes(s, 2), Some(<<0, 0>>), None)

\* Block 16, T: the slot array in descending order; i is null in the second
\* record, b (bit, a required type) in the third.
TPage16 ==
    PageOfRecordsReversed(P1(17),
        << RecT(0, 7, 1, <<0, 0, 0>>, Some(<<Utf16(<<104, 105>>)>>)),
           RecT(0, 0, 1, <<0, 1, 0>>, Some(<<Utf16(<<121, 111>>)>>)),
           RecT(0, 9, 0, <<0, 0, 1>>, Some(<<Utf16(<<110, 111>>)>>)) >>)

\* Block 17, T: a ghost record, a record without variable-length area, a
\* record with all columns.
TPage17(next) ==
    PageOfRecords(next,
        << RecT(6, 3, 0, <<0, 0, 0>>, Some(<<Utf16(<<103>>)>>)),
           RecT(0, 4, 1, <<0, 0, 0>>, None),
           RecT(0, 5, 1, <<0, 0, 0>>, Some(<<Utf16(<<111, 107>>)>>)) >>)

\* Block 17, T: between two records with all columns, a record whose
\* fixed-length size is zero.
TPage17NoFixedLength ==
    PageOfRecords(NoPointer,
        << RecT(0, 4, 1, <<0, 0, 0>>, Some(<<Utf16(<<97>>)>>)),
           MkRecord(0, <<>>, Some(<<0>>), None),
           RecT(0, 5, 1, <<0, 0, 0>>, Some(<<Utf16(<<111, 107>>)>>)) >>)

\* Block 18, T, second partition.
TPage18(next) ==
    PageOfRecords(next, << RecT(0, 6, 0, <<0, 0, 0>>, Some(<<Utf16(<<122>>)>>)) >>)

\* Block 19, B: a datetime that overflows the calendar, then one that does not.
BPage19 ==
    PageOfRecords(NoPointer, << RecB(0, 2147483647, 3), RecB(300, 45000, -2) >>)

\* Block 19 without records, its next-page pointer on itself.
EmptyLoopPage19 == PageOfRecords(P1(19), <<>>)

\* Block 20, F.
FPage20 ==
    PageOfRecords(NoPointer, << MkRecord(0, Zeros(8), Some(<<0>>), None) >>)

HeaderPages == [i \in 1..9 |-> ZeroPage] \o <<MkBootPage(P1(10))>>

CatalogPages(bptr, with_colpars) ==
    <<AllocUnitsPage(bptr, with_colpars), RowSetsPage, SchobjsPage12,
      SchobjsPage13(NoPointer, <<>>), ScalartypesPage, ColparsPage>>

\* The whole file, blocks 0..20.
WholePages ==
    HeaderPages \o CatalogPages(P1(19), TRUE)
        \o <<TPage16, TPage17(NoPointer), TPage18(NoPointer), BPage19, FPage20>>

\* pages with the block of index page_id replaced.
WithPage(pages, page_id, page) == [pages EXCEPT ![page_id + 1] = page]

\* 1: the whole file.
\* 2: the file ends after block 18 and 100 more bytes; blocks 17 and 18 point
\*    to blocks 19 and 20.
\* 3: the chain of T cycles (17 -> 16); block 19 is empty and points to itself.
\* 4: the first page of B is page 12 of file 2, a page the reader has passed.
\* 5: the file ends within the header pages.
\* 6: no allocation unit for syscolpars.
\* 7: block 13 of sysschobjs points to page 30, past the end of the file.
\* 8: block 13 of sysschobjs points back to block 12.
\* 9: sysrowsets goes on from block 11 to a block 21.
\* 10: block 13 of sysschobjs holds two more records of user tables in
\*     `objects$`: a ghost record (G) and a record whose id is null (N).
\* 11: the second record of block 17 of T has no fixed-length data.
Files ==
    << [pages |-> HeaderPages \o CatalogPages(P1(19), TRUE)
                    \o <<TPage16, TPage17(NoPointer), TPage18(NoPointer), BPage19, FPage20>>,
        tail |-> 0],
       [pages |-> HeaderPages \o CatalogPages(P1(19), TRUE)
                    \o <<TPage16, TPage17(P1(19)), TPage18(P1(20))>>,
        tail |-> 100],
       [pages |-> HeaderPages \o CatalogPages(P1(19), TRUE)
                    \o <<TPage16, TPage17(P1(16)), TPage18(NoPointer), EmptyLoopPage19, FPage20>>,
        tail |-> 0],
       [pages |-> HeaderPages \o CatalogPages(PagePointer(12, 2), TRUE)
                    \o <<TPage16, TPage17(NoPointer), TPage18(NoPointer), BPage19, FPage20>>,
        tail |-> 0],
       [pages |-> SubSeq(HeaderPages, 1, 9), tail |-> 10],
       [pages |-> HeaderPages \o CatalogPages(P1(19), FALSE)
                    \o <<TPage16, TPage17(NoPointer), TPage18(NoPointer), BPage19, FPage20>>,
        tail |-> 0],
       [pages |-> WithPage(WholePages, 13, SchobjsPage13(P1(30), <<>>)), tail |-> 100],
       [pages |-> WithPage(WholePages, 13, SchobjsPage13(P1(12), <<>>)), tail |-> 0],
       [pages |-> WithPage(WholePages \o <<RowSetsPage21>>, 11, RowSetsPage11), tail |-> 0],
       [pages |-> WithPage(WholePages, 13,
                           SchobjsPage13(NoPointer,
                               << Ghost(RecSchobj(107, N_G, 0, <<85, 32>>, 1)),
                                  FirstColumnNull(RecSchobj(108, N_N, 0, <<85, 32>>, 1), 20) >>)),
        tail |-> 0],
       [pages |-> WithPage(WholePages, 17, TPage17NoFixedLength), tail |-> 0] >>

Range(seq) == {seq[i] : i \in DOMAIN seq}

-----------------------------------------------------------------------------
(* The program: a process opens one of the files and calls the API.        *)
(*                                                                         *)
(*   db               the file the process reads                           *)
(*   overflow_checks  whether the build traps on integer overflow          *)
(*   handle           "closed" before from_read; "open" with an            *)
(*                    MdfDatabase; "failed" when from_read returned Err;   *)
(*                    "panicked" when a call panicked; "hung" when a call  *)
(*                    never returns                                        *)
(*   page_reader      MdfDatabase.page_reader                              *)
(*   base_table_data  MdfDatabase.base_table_data                          *)
(*   stream           the row stream rows() returned, while it lives:      *)
(*                    [columns, ps, inner, ended]                          *)
(*   emitted          the items the stream has yielded, with where each    *)
(*                    came from                                            *)
(*   ret              the last call and what it returned                   *)
(*   parse_call       a call of Value::parse on its own: the column, the   *)
(*                    record and, once made, the result                    *)

VARIABLES db, overflow_checks, handle, page_reader, base_table_data, stream, emitted, ret,
          parse_call

vars == <<db, overflow_checks, handle, page_reader, base_table_data, stream, emitted, ret,
          parse_call>>

\* The rows a consumer takes from one stream.
MaxEmitted == 8

Ret(op, arg, val) == [op |-> op, arg |-> arg, val |-> val]

Init ==
    /\ db \in 1..Len(Files)
    /\ overflow_checks \in BOOLEAN
    /\ handle = "closed"
    /\ page_reader = PageReaderNew
    /\ base_table_data = None
    /\ stream = None
    /\ emitted = <<>>
    /\ ret = Ret("none", <<>>, <<>>)
    /\ parse_call = None

\* A call that does not return: the process is gone (panic, with the message
\* v) or stuck (hang).
Abort(k, v, rd) ==
    /\ handle' = IF k = "hang" THEN "hung" ELSE "panicked"
    /\ page_reader' = rd
    /\ stream' = None
    /\ ret' = Ret(k, <<>>, IF k = "panic" THEN v ELSE <<>>)
    /\ UNCHANGED <<db, overflow_checks, base_table_data, emitted, parse_call>>

\* The process after from_read ended with r.
Opened(r) ==
    CASE r.k = "ok" ->
           /\ handle' = "open"
           /\ page_reader' = r.rd
           /\ base_table_data' = Some(r.v)
           /\ ret' = Ret("from_read", <<>>, "ok")
           /\ UNCHANGED <<db, overflow_checks, stream, emitted, parse_call>>
      [] r.k = "err" ->
           /\ handle' = "failed"
           /\ page_reader' = r.rd
           /\ ret' = Ret("from_read", <<>>, "err")
           /\ UNCHANGED <<db, overflow_checks, base_table_data, stream, emitted, parse_call>>
      [] OTHER -> Abort(r.k, r.v, r.rd)

\* MdfDatabase::open / from_read
Open ==
    /\ handle = "closed"
    /\ Opened(from_read(Files[db], overflow_checks))

\* The calls on the handle borrow it exclusively: none while a stream lives.
Callable == handle = "open" /\ stream = None

\* MdfDatabase::table_names
TableNames ==
    /\ Callable
    /\ ret' = Ret("table_names", <<>>, table_names(Unwrap(base_table_data)))
    /\ UNCHANGED <<db, overflow_checks, handle, page_reader, base_table_data, stream, emitted,
                   parse_call>>

\* The process after column_names(table_name) ended with r.
ColumnsNamed(table_name, r) ==
    IF IsOk(r)
    THEN /\ ret' = Ret("column_names", table_name, r.v)
         /\ UNCHANGED <<db, overflow_checks, handle, page_reader, base_table_data, stream,
                        emitted, parse_call>>
    ELSE Abort(r.k, r.v, page_reader)

\* MdfDatabase::column_names
ColumnNames(table_name) ==
    /\ Callable
    /\ ColumnsNamed(table_name, column_names(Unwrap(base_table_data), table_name))

\* The stream rows() builds for a table: the page stream over the table's
\* first-page pointers (with the numpart of each, for the record of where a
\* row came from) and no page at hand.
StreamOf(btd, tbl) ==
    [columns |-> tbl.columns,
     ps |-> read_pages(page_pointers(btd, tbl), NumpartsOf(PartitionsWithUnit(btd, tbl))),
     inner |-> <<>>,
     ended |-> FALSE]

\* rows() with the first page read before the stream is returned.
rows_prefetching(btd, rd, file, table_name) ==
    Let(table(btd, table_name), LAMBDA t :
    IF ~IsOk(t) THEN Rd(t.k, t.v, rd)
    ELSE IF ~IsSome(t.v) THEN Rd("ok", None, rd)
    ELSE Let(StreamOf(btd, Unwrap(t.v)), LAMBDA s :
         Let(next_page(s.ps, rd, file, FALSE), LAMBDA n :
         Rd("ok", Some([s EXCEPT !.ps = n.ps]), n.rd))))

\* MdfDatabase::rows: ok with Option<the stream>; rd is the reader after the
\* call. The streams are lazy: nothing is read before the first poll.
rows(btd, rd, file, table_name) ==
    Let(table(btd, table_name), LAMBDA t :
    IF ~IsOk(t) THEN Rd(t.k, t.v, rd)
    ELSE IF ~IsSome(t.v) THEN Rd("ok", None, rd)
    ELSE Rd("ok", Some(StreamOf(btd, Unwrap(t.v))), rd))

\* FlatMap::poll_next on the stream s.
poll_next(s, rd, file, oc) == PollLoop(s.columns, s.inner, s.ps, rd, file, {}, oc)

\* The process after rows(table_name) ended with r.
RowsReturned(table_name, r) ==
    IF r.k = "ok"
    THEN /\ stream' = r.v
         /\ page_reader' = r.rd
         /\ emitted' = <<>>
         /\ ret' = Ret("rows", table_name, IsSome(r.v))
         /\ UNCHANGED <<db, overflow_checks, handle, base_table_data, parse_call>>
    ELSE Abort(r.k, r.v, r.rd)

Rows(table_name) ==
    /\ Callable
    /\ RowsReturned(table_name,
                    rows(Unwrap(base_table_data), page_reader, Files[db], table_name))

\* The process after a poll of the stream s ended with r.
PollReturned(s, r) ==
    CASE r.k = "item" ->
           /\ stream' = Some([s EXCEPT !.inner = r.inner, !.ps = r.ps])
           /\ emitted' = Append(emitted, r.v)
           /\ page_reader' = r.rd
           /\ ret' = Ret("poll", Len(emitted) + 1, "item")
           /\ UNCHANGED <<db, overflow_checks, handle, base_table_data, parse_call>>
      [] r.k = "end" ->
           /\ stream' = Some([s EXCEPT !.inner = r.inner, !.ps = r.ps, !.ended = TRUE])
           /\ page_reader' = r.rd
           /\ ret' = Ret("poll", Len(emitted) + 1, "none")
           /\ UNCHANGED <<db, overflow_checks, handle, base_table_data, emitted, parse_call>>
      [] OTHER -> Abort(r.k, r.v, r.rd)

\* One `rows.next().await` of the consumer, which stops at the first None.
Poll ==
    /\ handle = "open"
    /\ IsSome(stream)
    /\ ~Unwrap(stream).ended
    /\ Len(emitted) < MaxEmitted
    /\ PollReturned(Unwrap(stream),
                    poll_next(Unwrap(stream), page_reader, Files[db], overflow_checks))

\* Row::values on a row the stream has yielded.
RowValues(i) ==
    /\ handle = "open"
    /\ i \in 1..Len(emitted)
    /\ ret' = Ret("values", i, Row_values(emitted[i].row))
    /\ UNCHANGED <<db, overflow_checks, handle, page_reader, base_table_data, stream, emitted,
                   parse_call>>

\* The consumer drops the stream, and the rows it took with it.
Drop ==
    /\ handle = "open"
    /\ IsSome(stream)
    /\ stream' = None
    /\ emitted' = <<>>
    /\ ret' = Ret("drop", <<>>, <<>>)
    /\ UNCHANGED <<db, overflow_checks, handle, page_reader, base_table_data, parse_call>>

Next ==
    \/ Open
    \/ TableNames
    \/ \E table_name \in TableNameArgs : ColumnNames(table_name)
    \/ \E table_name \in TableNameArgs : Rows(table_name)
    \/ Poll
    \/ \E i \in 1..MaxEmitted : RowValues(i)
    \/ Drop

Spec == Init /\ [][Next]_vars

-----------------------------------------------------------------------------
(* The page reader on its own: a process that has a PageReader over a      *)
(* source and calls read_page with pointers of its choice. Of a source the *)
(* reader sees its length only; a page is known by the index of its block. *)
(* db is the source, ret the last call with its pointer and outcome.       *)

\* The reader after from_read's ten pages and read_page((n - 1, file_id)):
\* every page from 10 is in the cache under file_id.
ReaderAt(n, file_id) ==
    [read_pos |-> n * PageSize,
     page_index |-> n,
     page_cache |-> [p \in {PagePointer(i, file_id) : i \in 10..(n - 1)} |-> p.page_id]]

\* The page the reader of the long source starts the model at.
LongStart == U16_MAX - 5

\* The pages of the long source, more than a u16 counts.
LongPages == U16_MAX + 11

\* 1: thirteen pages and 100 bytes, read from the start.
\* 2: LongPages pages and 7 bytes; the pages before LongStart have been read.
ReaderSources ==
    << [file |-> [pages |-> [i \in 1..13 |-> i - 1], tail |-> 100],
        start |-> PageReaderNew,
        page_ids |-> 9..14],
       [file |-> [pages |-> [i \in 1..LongPages |-> i - 1], tail |-> 7],
        start |-> ReaderAt(LongStart, 1),
        page_ids |-> {2, 12, LongStart - 1, LongStart + 2, U16_MAX}] >>

InitReader ==
    /\ db \in 1..Len(ReaderSources)
    /\ overflow_checks \in BOOLEAN
    /\ page_reader = ReaderSources[db].start
    /\ handle = IF page_reader = PageReaderNew THEN "closed" ELSE "open"
    /\ base_table_data = None
    /\ stream = None
    /\ emitted = <<>>
    /\ ret = Ret("none", <<>>, <<>>)
    /\ parse_call = None

\* The ten read_next_page calls of from_read.
ReaderOpen ==
    /\ handle = "closed"
    /\ Let(SkipHeaders(page_reader, ReaderSources[db].file, 10, overflow_checks), LAMBDA r :
           /\ handle' = IF r.k = "ok" THEN "open" ELSE "failed"
           /\ page_reader' = r.rd
           /\ ret' = Ret("from_read", <<>>, r.k))
    /\ UNCHANGED <<db, overflow_checks, base_table_data, stream, emitted, parse_call>>

\* read_page(page_pointer): an Err leaves the reader to its owner, a panic
\* ends the process.
ReaderReadPage(page_id, file_id) ==
    /\ handle = "open"
    /\ Let(read_page(page_reader, ReaderSources[db].file, PagePointer(page_id, file_id),
                     overflow_checks),
           LAMBDA r :
           /\ handle' = IF r.k = "panic" THEN "panicked" ELSE "open"
           /\ page_reader' = r.rd
           /\ ret' = Ret("read_page", PagePointer(page_id, file_id), [k |-> r.k, v |-> r.v]))
    /\ UNCHANGED <<db, overflow_checks, base_table_data, stream, emitted, parse_call>>

NextReader ==
    \/ ReaderOpen
    \/ \E page_id \in ReaderSources[db].page_ids, file_id \in 1..2 :
           ReaderReadPage(page_id, file_id)

SpecReader == InitReader /\ [][NextReader]_vars

-----------------------------------------------------------------------------
(* Value::parse on its own: one call with a column of any type of the      *)
(* dispatch table (or of a type it lacks) on a record whose null bitmap,   *)
(* fixed-length bytes and variable-length area are drawn from the sets     *)
(* below; before the call the record may have given its first column, an   *)
(* int, away. parse_call holds the call and what it returned.              *)

ParseTypes ==
    {S_bit, S_datetime, S_datetime2, S_tinyint, S_smallint, S_int, S_money, S_bigint,
     S_nchar, S_nvarchar, S_varchar, S_uniqueidentifier, S_decimal, S_float}

\* The fixed-length areas: 21 bytes each, room for an int and a decimal of 17
\* bytes. The days of a datetime read from the last are out of the calendar.
ParseFixed == {Zeros(21), [i \in 1..21 |-> 255], [i \in 1..21 |-> 127]}

\* The null bitmaps: none, or the bits of two columns.
ParseBits == {None} \cup {Some(<<b1, b2>>) : b1 \in {0, 1}, b2 \in {0, 1}}

\* The variable-length areas: none, or two columns.
ParseVars == {None, Some(<<Utf16(<<104, 105>>), <<>>>>)}

ParsePrecisions == {9, 28}

ParseColumn(type, precision) ==
    [name |-> N_X, type |-> type, max_length |-> 4, precision |-> precision, scale |-> 3]

\* The record a call is made with: the record of the bytes, after prior
\* columns (0 or 1) of type int were parsed from it.
ParseRecord(bytes, prior, oc) ==
    Let(RecordTryFrom(bytes, oc).v, LAMBDA record :
    IF prior = 0 THEN record ELSE parse_i32_opt(record).v[2])

InitParse ==
    /\ db = 1
    /\ overflow_checks \in BOOLEAN
    /\ handle = "closed"
    /\ page_reader = PageReaderNew
    /\ base_table_data = None
    /\ stream = None
    /\ emitted = <<>>
    /\ ret = Ret("none", <<>>, <<>>)
    /\ parse_call = None

\* The process after Value::parse(column, record) returned.
Parsed(column, record, result) ==
    /\ parse_call' = Some([column |-> column, record |-> record, result |-> result])
    /\ UNCHANGED <<db, overflow_checks, handle, page_reader, base_table_data, stream,
                   emitted, ret>>

\* One call of Value::parse: the column is of the type with the precision,
\* the record that of the bytes after prior columns.
ParseValue(type, precision, bytes, prior) ==
    /\ parse_call = None
    /\ Let(ParseRecord(bytes, prior, overflow_checks), LAMBDA record :
       Parsed(ParseColumn(type, precision), record,
              ValueParse(ParseColumn(type, precision), record, overflow_checks)))

NextParse ==
    \E type \in ParseTypes, precision \in ParsePrecisions, fixed \in ParseFixed,
       bits \in ParseBits, columns \in ParseVars, prior \in {0, 1} :
        ParseValue(type, precision, MkRecord(0, fixed, bits, columns), prior)

SpecParse == InitParse /\ [][NextParse]_vars

-----------------------------------------------------------------------------
(* Page::records and the record cursor on their own: a process decodes the *)
(* records of a page, takes one of them and consumes columns from it. The  *)
(* pages are built from the layouts below, so that what a consume returns  *)
(* can be held against what was laid out. parse_call holds                 *)
(*   stage   "page" before Page::records, "cursor" with a record at hand,  *)
(*           "done" once a call has failed (the record is moved into it)   *)
(*   page    the page, slot the record taken, in the order of the offsets  *)
(*   record  the record as the last consume left it                        *)
(*   taken   the number of consumes made                                   *)
(*   vtaken  the number of variable takes made with a clear null bit       *)
(*   last    the last call: [op, n, k, v]                                  *)

\* A record with the end-offset table ends before the variable bytes data.
MkRecordWithEnds(type, fixed, bits, ends, data) ==
    LET bitmap == IF IsSome(bits) THEN BitmapBytes(Unwrap(bits)) ELSE <<>>
        ncols == IF IsSome(bits) THEN Len(Unwrap(bits)) ELSE 0
        status == type * 2 + (IF IsSome(bits) THEN 16 ELSE 0) + 32
    IN <<status, 0>> \o LeBytes(4 + Len(fixed), 2) \o fixed \o LeBytes(ncols, 2) \o bitmap
           \o LeBytes(Len(ends), 2) \o Concat([i \in 1..Len(ends) |-> LeBytes(ends[i], 2)])
           \o data

\* The layout of a record: its fixed bytes, its null bits (None: no bitmap),
\* its variable columns (None: status bit 5 clear) and, where the end-offset
\* table is not the one of the columns, the table.
Layout(fixed, bits, columns, ends) == [fixed |-> fixed, bits |-> bits, vars |-> columns, ends |-> ends]

RecordOfLayout(l) ==
    IF IsSome(l.ends)
    THEN MkRecordWithEnds(0, l.fixed, l.bits, Unwrap(l.ends), Concat(Unwrap(l.vars)))
    ELSE MkRecord(0, l.fixed, l.bits, l.vars)

\* 1: three variable columns, the second empty; no null bitmap and no
\*    variable column declared; no variable-length area. The slot array is
\*    in descending order.
\* 2: end-offset tables (the variable data starts at 15): an end before the
\*    previous end, an end before the start, an end with the high bit set, an
\*    end past the record.
\* 3: the second record has no fixed-length data.
\* 4: two variable columns, no null bit set.
RecordPages ==
    << [reversed |-> TRUE,
        layouts |-> << Layout(<<1, 2, 3, 4>>, Some(<<0, 1, 0, 0>>),
                              Some(<<Utf16(<<97, 98>>), <<>>, <<9>>>>), None),
                       Layout(<<5, 6, 7, 8, 9>>, None, Some(<<>>), None),
                       Layout(<<10, 11>>, Some(<<1, 0>>), None, None) >>],
       [reversed |-> FALSE,
        layouts |-> << Layout(<<1, 2>>, Some(<<0, 0, 0>>), Some(<<<<65, 0, 66, 0>>>>),
                              Some(<<18, 16>>)),
                       Layout(<<1, 2>>, Some(<<0, 0, 0>>), Some(<<<<65, 0, 66, 0>>>>),
                              Some(<<10, 17>>)),
                       Layout(<<1, 2>>, Some(<<0, 0, 0>>), Some(<<<<65, 0, 66, 0>>>>),
                              Some(<<32768 + 17, 19>>)),
                       Layout(<<1, 2>>, Some(<<0, 0, 0>>), Some(<<<<65, 0, 66, 0>>>>),
                              Some(<<17, 9000>>)) >>],
       [reversed |-> FALSE,
        layouts |-> << Layout(<<1, 2, 3, 4>>, Some(<<0, 0>>), Some(<<<<7>>>>), None),
                       Layout(<<>>, Some(<<0>>), None, None),
                       Layout(<<5, 6>>, Some(<<0, 0>>), None, None) >>],
       [reversed |-> FALSE,
        layouts |-> << Layout(<<1, 2, 3>>, Some(<<0, 0, 0, 0, 0>>),
                              Some(<<Utf16(<<97>>), <<7, 8, 9>>>>), None) >>] >>

\* The bytes of the page p.
BytesOfRecordPage(p) ==
    Let([i \in 1..Len(p.layouts) |-> RecordOfLayout(p.layouts[i])], LAMBDA recs :
    IF p.reversed THEN PageOfRecordsReversed(NoPointer, recs)
    ELSE PageOfRecords(NoPointer, recs))

RecordPageBytes == [p \in 1..Len(RecordPages) |-> BytesOfRecordPage(RecordPages[p])]

\* The slots of a page and the consumes of a record the model goes up to.
MaxSlots == 4
MaxTaken == 4

\* The lengths of the fixed takes.
TakeLengths == {1, 3}

Call(op, n, k, v) == [op |-> op, n |-> n, k |-> k, v |-> v]

InitRecord ==
    /\ db = 1
    /\ overflow_checks \in BOOLEAN
    /\ handle = "closed"
    /\ page_reader = PageReaderNew
    /\ base_table_data = None
    /\ stream = None
    /\ emitted = <<>>
    /\ ret = Ret("none", <<>>, <<>>)
    /\ \E p \in 1..Len(RecordPages) :
           parse_call = [stage |-> "page", page |-> p, slot |-> 0, record |-> None,
                         taken |-> 0, vtaken |-> 0, last |-> None]

\* Page::records on the page; the process goes on with the record of slot.
PageRecords(slot) ==
    /\ parse_call.stage = "page"
    /\ Let(records(PageTryFrom(RecordPageBytes[parse_call.page]).v, overflow_checks),
           LAMBDA r :
           IF r.k = "ok"
           THEN /\ slot <= Len(r.v)
                /\ parse_call' = [parse_call EXCEPT !.stage = "cursor", !.slot = slot,
                                                    !.record = r.v[slot],
                                                    !.last = Call("records", Len(r.v), "ok", <<>>)]
           ELSE parse_call' = [parse_call EXCEPT !.stage = "done",
                                                 !.last = Call("records", 0, r.k, r.v)])
    /\ UNCHANGED <<db, overflow_checks, handle, page_reader, base_table_data, stream,
                   emitted, ret>>

\* The layout of the record at hand.
LayoutAtHand == RecordPages[parse_call.page].layouts[parse_call.slot]

\* Bit k of the null bitmap the layout l was laid out with (no bitmap, or no
\* such bit: clear).
BitOfLayout(l, k) == IsSome(l.bits) /\ k < Len(Unwrap(l.bits)) /\ Unwrap(l.bits)[k + 1] = 1

\* The consume op of the record cursor; n is the length of a fixed take.
ConsumeOf(op, record, n, oc) ==
    CASE op = "parse_bytes_opt" -> parse_bytes_opt(record, n)
      [] op = "parse_bytes" -> parse_bytes(record, n)
      [] op = "parse_variables_bytes_opt" -> parse_variables_bytes_opt(record, oc)
      [] OTHER -> parse_string(record, oc)

\* One consume on the record at hand: the record is moved into the call and
\* comes back with an Ok only.
Consume(op, n) ==
    /\ parse_call.stage = "cursor"
    /\ parse_call.taken < MaxTaken
    /\ Let(ConsumeOf(op, parse_call.record, n, overflow_checks), LAMBDA r :
       Let(IF n = 0 /\ ~BitOfLayout(LayoutAtHand, parse_call.taken) THEN 1 ELSE 0, LAMBDA item :
           IF r.k = "ok"
           THEN parse_call' = [parse_call EXCEPT !.record = r.v[2], !.taken = @ + 1,
                                                 !.vtaken = @ + item,
                                                 !.last = Call(op, n, "ok", r.v[1])]
           ELSE parse_call' = [parse_call EXCEPT !.stage = "done", !.taken = @ + 1,
                                                 !.vtaken = @ + item,
                                                 !.last = Call(op, n, r.k, r.v)]))
    /\ UNCHANGED <<db, overflow_checks, handle, page_reader, base_table_data, stream,
                   emitted, ret>>

NextRecord ==
    \/ \E slot \in 1..MaxSlots : PageRecords(slot)
    \/ \E op \in {"parse_bytes_opt", "parse_bytes"}, n \in TakeLengths : Consume(op, n)
    \/ \E op \in {"parse_variables_bytes_opt", "parse_string"} : Consume(op, 0)

SpecRecord == InitRecord /\ [][NextRecord]_vars

-----------------------------------------------------------------------------
(* PagePointer::try_from and PageHeader::try_from on their own: a process   *)
(* decodes one input, a page pointer of some length or a page header, built *)
(* from a page number and a file id. parse_call holds the input and result. *)

\* The 4-byte page numbers: with and without bits above the low 16.
PageNumbers == {0, 1, 12, 255, 256, 65535, 65536, 65537, 196615, 16777216, 2147483647}

\* The 2-byte file ids.
FileIds == {0, 1, 2, 258, 65535}

\* The lengths of the inputs of PagePointer::try_from.
PointerLengths == {0, 4, 5, 6, 7, 8}

\* The lengths of the inputs of PageHeader::try_from.
HeaderLengths == {95, 96, 97}

\* The bytes of a pointer as stored: the page number, then the file id.
StoredPointer(number, file_id) == LeBytes(number, 4) \o LeBytes(file_id, 2)

\* A page header of the length with the pointer at offset 16 and a slot
\* count of 3 after it.
HeaderBytes(number, file_id, len) ==
    SubSeq(Zeros(16) \o StoredPointer(number, file_id) \o LeBytes(3, 2) \o Zeros(73), 1, len)

InitPointer ==
    /\ db = 1
    /\ overflow_checks \in BOOLEAN
    /\ handle = "closed"
    /\ page_reader = PageReaderNew
    /\ base_table_data = None
    /\ stream = None
    /\ emitted = <<>>
    /\ ret = Ret("none", <<>>, <<>>)
    /\ parse_call = None

\* PagePointer::try_from on the first len bytes of the pointer followed by
\* two more bytes.
DecodePointer(number, file_id, len) ==
    /\ parse_call = None
    /\ parse_call' = Some([op |-> "pointer", number |-> number, file_id |-> file_id,
                           len |-> len,
                           result |-> PagePointerTryFrom(
                               SubSeq(StoredPointer(number, file_id) \o <<1, 1>>, 1, len))])
    /\ UNCHANGED <<db, overflow_checks, handle, page_reader, base_table_data, stream,
                   emitted, ret>>

\* PageHeader::try_from on a header with the pointer as next page pointer.
DecodeHeader(number, file_id, len) ==
    /\ parse_call = None
    /\ parse_call' = Some([op |-> "header", number |-> number, file_id |-> file_id,
                           len |-> len,
                           result |-> PageHeaderTryFrom(HeaderBytes(number, file_id, len))])
    /\ UNCHANGED <<db, overflow_checks, handle, page_reader, base_table_data, stream,
                   emitted, ret>>

NextDecode ==
    \/ \E number \in PageNumbers, file_id \in FileIds, len \in PointerLengths :
           DecodePointer(number, file_id, len)
    \/ \E number \in PageNumbers, file_id \in FileIds, len \in HeaderLengths :
           DecodeHeader(number, file_id, len)

SpecPointer == InitPointer /\ [][NextDecode]_vars

-----------------------------------------------------------------------------
(* The properties.                                                         *)

\* The declared column names of the table the stream reads.
DeclaredNames == NamesOf(Unwrap(stream).columns)

\* C1: a record of which a declared column fails to decode (unknown type,
\* required column with its null bit set, datetime overflow, variable column
\* without variable-length area) gets no Row: no Row the stream has emitted
\* comes from a record whose column loop was left by an error.
C1_NoRowOfFailedRecord ==
    \A i \in 1..Len(emitted) : ~emitted[i].failed

\* C2: the key set of every Row emitted by rows(table) is exactly the set of
\* the declared column names of the table.
C2_KeysAreDeclaredNames ==
    IsSome(stream) =>
        \A i \in 1..Len(emitted) : DOMAIN emitted[i].row.columns = Range(DeclaredNames)

\* The null bit the next column of the record pops is set.
NullBitSet(record) ==
    /\ IsSome(record.null_bitmap)
    /\ Unwrap(record.null_bitmap).index < 8 * Len(Unwrap(record.null_bitmap).null_bitmap)
    /\ BitAt(Unwrap(record.null_bitmap).null_bitmap, Unwrap(record.null_bitmap).index)

DispatchTypes == ParseTypes \ {S_float}

\* The types Value::parse reads with an optional primitive, and those it
\* reads with a required one.
OptionalTypes ==
    {S_datetime, S_datetime2, S_int, S_money, S_bigint, S_nvarchar, S_varchar, S_decimal}
RequiredTypes == {S_bit, S_tinyint, S_smallint, S_nchar, S_uniqueidentifier}

\* C3 as stated: for every type of the dispatch table, a column whose null
\* bit is set parses to Value::Null, whatever the bytes.
C3_NullBitGivesNull ==
    (/\ IsSome(parse_call)
     /\ Unwrap(parse_call).column.type \in DispatchTypes
     /\ NullBitSet(Unwrap(parse_call).record))
    => /\ IsOk(Unwrap(parse_call).result)
       /\ Unwrap(parse_call).result.v[1] = ValueNull

\* C3 amended: a column whose null bit is set parses to Value::Null, whatever
\* the bytes, if its type is int, money, bigint, datetime, datetime2,
\* nvarchar, varchar or decimal; if its type is bit, tinyint, smallint, nchar
\* or uniqueidentifier, the parse is the error "Requested none null bytes but
\* value is null".
C3_NullBitGivesNullOrError ==
    (IsSome(parse_call) /\ NullBitSet(Unwrap(parse_call).record))
    => /\ Unwrap(parse_call).column.type \in OptionalTypes
          => /\ IsOk(Unwrap(parse_call).result)
             /\ Unwrap(parse_call).result.v[1] = ValueNull
       /\ Unwrap(parse_call).column.type \in RequiredTypes
          => Unwrap(parse_call).result = ErrR("Requested none null bytes but value is null")

\* A datetime column with its null bit set over bytes that are no date of the
\* calendar has parsed to Null.
C3_Witness ==
    /\ IsSome(parse_call)
    /\ NullBitSet(Unwrap(parse_call).record)
    /\ Unwrap(parse_call).column.type = S_datetime
    /\ Unwrap(parse_call).record.fixed_bytes[1] = 127
    /\ Unwrap(parse_call).result.v[1] = ValueNull

\* C4: the stream ends only after the chain of the last first-page pointer
\* is exhausted: when it has returned None, no first-page pointer is left.
C4_EndsAfterLastPointer ==
    (IsSome(stream) /\ Unwrap(stream).ended) => Unwrap(stream).ps.page_pointers = <<>>

\* C5: no Row is emitted for a record of a type other than Primary.
C5_OnlyPrimaryRecords ==
    \A i \in 1..Len(emitted) : emitted[i].type = "Primary"

\* r1 comes before r2 in heap order.
HeapBefore(r1, r2) ==
    \/ r1.numpart < r2.numpart
    \/ r1.chain = r2.chain /\ r1.step < r2.step
    \/ r1.chain = r2.chain /\ r1.step = r2.step /\ r1.slot < r2.slot

\* C6: rows are emitted in heap order: of two emitted rows the earlier is of
\* the partition with the smaller numpart, or of the same chain and an
\* earlier page of it, or of the same page and the smaller slot offset.
C6_HeapOrder ==
    \A i \in 1..Len(emitted) : \A j \in (i + 1)..Len(emitted) :
        HeapBefore(emitted[i], emitted[j])

\* Rows of two partitions, of two pages of one chain and of two slots of one
\* page have been emitted by one stream.
C6_Witness ==
    /\ \E i \in 1..Len(emitted) : \E j \in (i + 1)..Len(emitted) :
           emitted[i].numpart < emitted[j].numpart
    /\ \E i \in 1..Len(emitted) : \E j \in (i + 1)..Len(emitted) :
           emitted[i].chain = emitted[j].chain /\ emitted[i].step < emitted[j].step
    /\ \E i \in 1..Len(emitted) : \E j \in (i + 1)..Len(emitted) :
           /\ emitted[i].chain = emitted[j].chain /\ emitted[i].step = emitted[j].step
           /\ emitted[i].slot < emitted[j].slot

\* C7: pages are read only while the row stream is polled (and by from_read):
\* a step that changes the bytes consumed, the page index or the page cache
\* is from_read or a poll of a live stream; rows(table) changes none of them,
\* and none changes without a stream or once the stream has ended.
C7_ReadsOnlyWhilePolled ==
    [][page_reader' # page_reader =>
          \/ handle = "closed"
          \/ /\ IsSome(stream) /\ ~Unwrap(stream).ended
             /\ ret'.op \in {"poll", "panic", "hang"}]_vars

\* A stream was dropped after it had read data pages.
C7_Witness ==
    /\ ret.op = "drop"
    /\ page_reader.page_index > 16
    /\ stream = None

\* The value of a returned column_names or rows call is Some.
ReturnedSome == IF ret.op = "rows" THEN ret.val ELSE IsSome(ret.val)

\* C8: column_names(t) and rows(t) return a value exactly when t is an
\* element of table_names().
C8_SomeIffTableName ==
    (handle = "open" /\ ret.op \in {"column_names", "rows"})
    => (ReturnedSome <=> ret.arg \in Range(table_names(Unwrap(base_table_data))))

\* C9: Row.values() returns the pairs of a row in the declared column order
\* (stated of the rows all of whose columns were decoded).
C9_ValuesInDeclaredOrder ==
    (ret.op = "values" /\ IsSome(stream) /\ ret.arg <= Len(emitted)
         /\ ~emitted[ret.arg].failed)
    => [k \in 1..Len(ret.val) |-> ret.val[k][1]] = DeclaredNames

\* The names of the Sysschobj entries of the catalog with nsclass 0, pclass 1
\* and type "U", in the order the catalog was read.
UserTableNames ==
    Let(SelectSeq(Unwrap(base_table_data).sysschobjs,
                  LAMBDA o : o.nsclass = 0 /\ o.pclass = 1 /\ o.type = S_U), LAMBDA objs :
    [i \in 1..Len(objs) |-> objs[i].name])

\* C10: table_names() returns the names of exactly the Sysschobj entries with
\* nsclass 0, pclass 1 and trimmed type "U", one per entry, in discovery
\* order, unsorted.
C10_TableNames ==
    ret.op = "table_names" => ret.val = UserTableNames

\* table_names() has returned T (of the first sysschobjs page), then B, F and
\* Z (of the second), and none of the view V and the objects S and P.
C10_Witness ==
    ret.op = "table_names" /\ ret.val = <<N_T, N_B, N_F, N_Z>>

\* C11: opening returns an I/O error and produces no database handle when the
\* source ends before a page the open needs: a read of Open that fails (the
\* reader has consumed what was left of the source, less than a page) leaves
\* the call with the error result and without catalog.
C11_ShortSourceFailsOpen ==
    [][(handle = "closed" /\ page_reader'.read_pos > Len(Files[db].pages) * PageSize)
        => (/\ handle' = "failed"
            /\ ret' = Ret("from_read", <<>>, "err")
            /\ base_table_data' = None)]_vars

\* The open has failed on a pointer of a catalog chain, past the ten pages of
\* the header.
C11_Witness ==
    /\ handle = "failed"
    /\ page_reader.page_index > 10
    /\ page_reader.read_pos > Len(Files[db].pages) * PageSize

\* C12: every failure of the open surfaces to its caller as an error result:
\* no open ends in a panic (a process gone without a catalog).
C12_OpenFailuresAreErrors == base_table_data = None => handle # "panicked"

\* C13: every walk of a page chain terminates, whatever the pages hold: no
\* call is stuck in a chain whose next-page pointer does not advance.
C13_WalksTerminate == handle # "hung"

\* The pointer of a call is behind the reader: not in the cache, its page
\* passed.
Backward(rd, page_pointer) ==
    page_pointer \notin DOMAIN rd.page_cache /\ page_pointer.page_id < rd.page_index

\* C14: read_page(ptr) is a hard failure exactly when ptr is not in the cache
\* and ptr.page_id is smaller than the page index; then no byte is read and
\* neither the page index nor the cache changes.
C14_HardFailureIffBackward ==
    [][(handle = "open" /\ ret'.op = "read_page")
        => (/\ (handle' = "panicked") <=> Backward(page_reader, ret'.arg)
            /\ Backward(page_reader, ret'.arg) => page_reader' = page_reader)]_vars

\* C15: after a successful read_page(ptr) with ptr not cached, every page
\* index i from the old page index to ptr.page_id is in the cache under
\* (i, ptr.file_id) and holds the i-th block of the source, the page index is
\* ptr.page_id + 1, and the page returned is the block ptr.page_id.
C15_ReadsUpToPointer ==
    [][(/\ handle = "open"
        /\ ret'.op = "read_page"
        /\ ret'.val.k = "ok"
        /\ ret'.arg \notin DOMAIN page_reader.page_cache)
        => (/\ \A i \in page_reader.page_index..ret'.arg.page_id :
                  /\ with_page_id(ret'.arg, i) \in DOMAIN page_reader'.page_cache
                  /\ page_reader'.page_cache[with_page_id(ret'.arg, i)] = i
            /\ page_reader'.page_index = ret'.arg.page_id + 1
            /\ ret'.val.v = ret'.arg.page_id)]_vars

\* C16: read_page(ptr) for a pointer in the cache returns the page the cache
\* holds for it and leaves the source position, the page index and the cache
\* as they were, so that repeated reads of the pointer return the same page.
C16_CachedReadChangesNothing ==
    [][(/\ handle = "open"
        /\ ret'.op = "read_page"
        /\ ret'.arg \in DOMAIN page_reader.page_cache)
        => (/\ ret'.val = [k |-> "ok", v |-> page_reader.page_cache[ret'.arg]]
            /\ page_reader' = page_reader
            /\ handle' = "open")]_vars

\* A read has returned a page that was in the cache: the reader stands
\* beyond the page after it.
C16_Witness ==
    /\ handle = "open"
    /\ ret.op = "read_page"
    /\ ret.val.k = "ok"
    /\ ret.arg \in DOMAIN page_reader.page_cache
    /\ ret.arg.page_id + 1 < page_reader.page_index

\* C17: in every state of a page reader the page index is the number of
\* whole pages consumed from the source, every key of the cache has a page_id
\* smaller than the page index, the pages 0 to 9 read at open are not in the
\* cache, and the page index never decreases.
C17_ReaderInvariant ==
    /\ [](handle # "panicked"
            => /\ page_reader.page_index = page_reader.read_pos \div PageSize
               /\ \A k \in DOMAIN page_reader.page_cache :
                      k.page_id < page_reader.page_index /\ k.page_id >= 10)
    /\ [][page_reader'.page_index >= page_reader.page_index]_vars

RECURSIVE ChainBlocks(_, _, _)
\* The blocks of the chain of file that starts at block page_id: each block
\* once, in the order of the next-page pointers, until a page has none.
ChainBlocks(file, page_id, seen) ==
    IF page_id \in seen \/ page_id >= Len(file.pages) THEN <<>>
    ELSE Let(next_page_pointer(PageOf(file, page_id)), LAMBDA next :
         <<page_id>> \o (IF IsSome(next)
                         THEN ChainBlocks(file, Unwrap(next).page_id, seen \cup {page_id})
                         ELSE <<>>))

\* The entities of type t of a chain: chain order, then slot order.
ChainEntities(t, file, page_id, oc) ==
    Let(ChainBlocks(file, page_id, {}), LAMBDA blocks :
    Concat([b \in 1..Len(blocks) |-> PageEntities(t, PageOf(file, blocks[b]), oc).v]))

\* The catalog of file, each table parsed from every page of its chain; the
\* chains start at the blocks 10, 11, 12, 14 and 15.
CatalogOfChains(file, oc) ==
    [sysalloc_units |-> ChainEntities("SysallocUnit", file, 10, oc),
     sysrow_sets |-> ChainEntities("SysrowSet", file, 11, oc),
     sysschobjs |-> ChainEntities("Sysschobj", file, 12, oc),
     sysscalartypes |-> ChainEntities("Sysscalartype", file, 14, oc),
     syscolpars |-> ChainEntities("Syscolpar", file, 15, oc)]

\* C18: at open each of the five catalog tables is parsed from every page of
\* its chain, from its first page along next_page_pointer until it is
\* absent, the entities in chain order, then slot order.
C18_CatalogOfWholeChains ==
    [][(handle = "closed" /\ handle' = "open")
        => Unwrap(base_table_data') = CatalogOfChains(Files[db], overflow_checks)]_vars

\* The entities of type t of the Primary records of a chain.
PrimaryChainEntities(t, file, page_id, oc) ==
    Let(ChainBlocks(file, page_id, {}), LAMBDA blocks :
    Concat([b \in 1..Len(blocks) |->
               EntitiesOf(t, SelectSeq(records(PageOf(file, blocks[b]), oc).v,
                                       LAMBDA record : record.type = "Primary"), oc).v]))

\* C19: during the bootstrap of the catalog a record that is not Primary, or
\* whose fields do not decode, contributes no entity and is skipped without
\* error; the other records of the page and of the chain are parsed. (Of the
\* tables that are read along their chain.)
C19_OnlyPrimaryCatalogRecords ==
    [][(handle = "closed" /\ handle' = "open")
        => /\ Unwrap(base_table_data').sysalloc_units
                 = PrimaryChainEntities("SysallocUnit", Files[db], 10, overflow_checks)
           /\ Unwrap(base_table_data').sysschobjs
                 = PrimaryChainEntities("Sysschobj", Files[db], 12, overflow_checks)
           /\ Unwrap(base_table_data').sysscalartypes
                 = PrimaryChainEntities("Sysscalartype", Files[db], 14, overflow_checks)
           /\ Unwrap(base_table_data').syscolpars
                 = PrimaryChainEntities("Syscolpar", Files[db], 15, overflow_checks)]_vars

\* The panics of Record::try_from that no other decoder has.
RecordPanics ==
    {"index out of bounds", "range start index 2 out of range",
     "unwrap: failed to fill whole buffer", "not yet implemented: No fixed length data!"}

\* C20: the iteration of the records of a page is not aborted by a malformed
\* record: the error is reported for its slot and the records of the other
\* slots are produced, so no call ends in a panic of the record decoder.
C20_MalformedRecordReported == ret.op = "panic" => ret.val \notin RecordPanics

\* The offset of the record of slot (in the order of the offsets) on the page
\* p, and the offset its byte range ends at.
StartOfSlot(p, slot) == LayOut(96, [i \in 1..Len(p.layouts) |-> RecordOfLayout(p.layouts[i])])[slot].off

EndOfSlot(p, slot) == IF slot < Len(p.layouts) THEN StartOfSlot(p, slot + 1) ELSE PageSize

\* The bytes of its range a decoded record with variable-length area holds:
\* what Record::try_from has read and what it has left to the columns.
BytesHeld(record) ==
    4 + Len(record.fixed_bytes) + 2
      + (IF IsSome(record.null_bitmap) THEN Len(Unwrap(record.null_bitmap).null_bitmap) ELSE 0)
      + 2 + Len(Unwrap(record.variable_columns).variable_length_column_lengths)
      + Len(Unwrap(record.variable_columns).variable_columns)

\* C21: for a page with slot_count = n, records() yields exactly n records,
\* the record of the i-th smallest offset of the slot array over the bytes
\* from that offset to the next one, the last up to the end of the page.
C21_RecordsOfSlots ==
    [][parse_call.stage = "page"
        => /\ parse_call'.last.k = "ok"
           /\ parse_call'.last.n = Len(RecordPages[parse_call.page].layouts)
           /\ parse_call'.record.fixed_bytes
                 = RecordPages[parse_call.page].layouts[parse_call'.slot].fixed
           /\ has_variable_length_columns(parse_call'.record)
                 => BytesHeld(parse_call'.record)
                      = EndOfSlot(RecordPages[parse_call.page], parse_call'.slot)
                          - StartOfSlot(RecordPages[parse_call.page], parse_call'.slot)]_vars

NoItemLeft(record, l) ==
    \/ ~IsSome(l.vars)
    \/ Len(Unwrap(record.variable_columns).variable_length_column_lengths) < 2

\* C23: a variable take on a column whose null bit is clear returns an empty
\* slice, not null and not an error, whenever the variable-column iterator
\* has no item left: after all declared variable columns were consumed, and
\* for a record with status bit 5 clear.
C23_EmptySliceWhenExhausted ==
    [][(/\ parse_call.stage = "cursor"
        /\ parse_call'.last.op = "parse_variables_bytes_opt"
        /\ ~BitOfLayout(LayoutAtHand, parse_call.taken)
        /\ NoItemLeft(parse_call.record, LayoutAtHand))
        => parse_call'.last.k = "ok" /\ parse_call'.last.v = Some(EMPTY_SLICE)]_vars

\* The layout l has a variable-length area with the end-offset table of its
\* columns.
WellFormedVars(l) == IsSome(l.vars) /\ ~IsSome(l.ends)

\* Item i (from 1) of the variable columns the layout l was laid out with,
\* nothing past the last.
ItemOfLayout(l, i) == IF i <= Len(Unwrap(l.vars)) THEN Unwrap(l.vars)[i] ELSE <<>>

\* C24: for a record with status bit 5 set, N declared variable columns and
\* non-decreasing end offsets within the record, the variable-column
\* iterator yields N slices and then nothing; slice i has the length
\* e_i - e_(i-1), e_0 the offset at which the variable data starts, and the
\* slices are consecutive ranges of the variable bytes: take i returns the
\* bytes of column i as laid out and removes them from the front of the
\* variable bytes, a take past the last column returns and removes nothing.
C24_VariableSlices ==
    [][(/\ parse_call.stage = "cursor"
        /\ parse_call'.last.op = "parse_variables_bytes_opt"
        /\ ~BitOfLayout(LayoutAtHand, parse_call.taken)
        /\ WellFormedVars(LayoutAtHand))
        => LET slice == ItemOfLayout(LayoutAtHand, parse_call.vtaken + 1)
               before == Unwrap(parse_call.record.variable_columns).variable_columns
               after == Unwrap(parse_call'.record.variable_columns).variable_columns
           IN /\ parse_call'.last.k = "ok"
              /\ parse_call'.last.v = Some(slice)
              /\ before = slice \o after]_vars

\* Both variable columns of a record have been yielded, and a third take
\* has found nothing.
C24_Witness ==
    /\ parse_call.stage = "cursor"
    /\ parse_call.page = 4
    /\ parse_call.vtaken = 3
    /\ parse_call.last.op = "parse_variables_bytes_opt"
    /\ parse_call.last.v = Some(<<>>)
    /\ Unwrap(parse_call.record.variable_columns).read_bytes_index = None

\* A variable take with a clear null bit on a record laid out with the
\* end-offset table ends (smaller than the previous end, with the high bit
\* set, past the end of the record).
MalformedTake ==
    /\ parse_call.stage = "cursor"
    /\ parse_call'.last.op = "parse_variables_bytes_opt"
    /\ ~BitOfLayout(LayoutAtHand, parse_call.taken)
    /\ IsSome(LayoutAtHand.ends)

\* The take has yielded a slice from the front of the remaining variable bytes.
ClippedSlice ==
    /\ parse_call'.last.k = "ok"
    /\ IsSome(parse_call'.last.v)
    /\ Unwrap(parse_call.record.variable_columns).variable_columns
           = Unwrap(parse_call'.last.v)
                 \o Unwrap(parse_call'.record.variable_columns).variable_columns

\* C25: for any end-offset table, each step of the variable-column iterator
\* yields a slice that lies within the remaining variable bytes, clipped to
\* their length, and does not fail.
C25_MalformedOffsetsTolerated == [][MalformedTake => ClippedSlice]_vars

\* A string take on the record at hand.
StringTake == parse_call.stage = "cursor" /\ parse_call'.last.op = "parse_string"

\* The variable slice the next clear-bit take of the record at hand is due:
\* the next column of the layout, nothing when the columns are used up or
\* the record has no variable area.
SliceDue ==
    IF WellFormedVars(LayoutAtHand) THEN ItemOfLayout(LayoutAtHand, parse_call.vtaken + 1)
    ELSE <<>>

\* The string take came out as string_variable is described: null for a set
\* null bit or an empty slice, the decoded slice otherwise; with a clear
\* null bit the slice was taken off the variable-column iterator.
StringAsDescribed ==
    /\ parse_call'.last.k = "ok"
    /\ IsSome(LayoutAtHand.ends)
           \/ parse_call'.last.v = IF BitOfLayout(LayoutAtHand, parse_call.taken) \/ SliceDue = <<>>
                                    THEN None
                                    ELSE Some(DecodeUtf16LE(SliceDue))
    /\ (WellFormedVars(LayoutAtHand) /\ ~BitOfLayout(LayoutAtHand, parse_call.taken))
           => Unwrap(parse_call.record.variable_columns).variable_columns
                  = SliceDue \o Unwrap(parse_call'.record.variable_columns).variable_columns

\* C26: parse_string returns null when the column's null bit is set or the
\* variable slice it receives is empty, and a decoded string otherwise; with
\* a clear null bit it consumes exactly one item of the variable-column
\* iterator.
C26_StringVariable == [][StringTake => StringAsDescribed]_vars

\* The first 8 fixed bytes of the record are ticks and days that lead out of
\* the calendar when added to 1900-01-01.
DateOverflows(record) ==
    /\ Len(record.fixed_bytes) >= 8
    /\ LET time == read_i32(SubSeq(record.fixed_bytes, 1, 4))
           days == read_i32(SubSeq(record.fixed_bytes, 5, 8))
       IN \/ days + (time \div TicksPerDay) > ChronoMaxDays
          \/ days + (time \div TicksPerDay) < ChronoMinDays

\* C27: a datetime whose days and ticks overflow the calendar when added to
\* 1900-01-01 decodes to Null: the parse succeeds with Value::Null and the
\* record advanced by the 8 fixed bytes, so that the following columns can
\* be decoded.
C27_DatetimeOverflowIsNull ==
    (/\ IsSome(parse_call)
     /\ Unwrap(parse_call).column.type = S_datetime
     /\ ~NullBitSet(Unwrap(parse_call).record)
     /\ DateOverflows(Unwrap(parse_call).record))
    => /\ IsOk(Unwrap(parse_call).result)
       /\ Unwrap(parse_call).result.v[1] = ValueNull
       /\ Unwrap(parse_call).result.v[2].fixed_bytes
              = SubSeq(Unwrap(parse_call).record.fixed_bytes, 9,
                       Len(Unwrap(parse_call).record.fixed_bytes))

\* C28: a 6-byte page pointer decodes to the low 16 bits of its 4-byte
\* little-endian page number as page_id and the following 2-byte
\* little-endian value as file_id; an input of another length is rejected
\* with an error; the next_page_pointer of a page header is absent exactly
\* when the decoded page_id is 0, and the decoded pointer otherwise.
C28_PagePointerDecoding ==
    IsSome(parse_call) =>
        LET c == Unwrap(parse_call) IN
        /\ (c.op = "pointer" /\ c.len = 6)
               => c.result = OkR([page_id |-> c.number % 65536, file_id |-> c.file_id])
        /\ (c.op = "pointer" /\ c.len # 6) => c.result.k = "err"
        /\ (c.op = "header" /\ c.len = 96)
               => /\ c.result.k = "ok"
                  /\ c.result.v.next_page_pointer
                         = IF c.number % 65536 = 0 THEN None
                           ELSE Some([page_id |-> c.number % 65536, file_id |-> c.file_id])

\* The header of a page whose next page number is 65536, low 16 bits zero,
\* has been decoded: it has no next page pointer.
C28_Witness ==
    /\ IsSome(parse_call)
    /\ Unwrap(parse_call).op = "header"
    /\ Unwrap(parse_call).len = 96
    /\ Unwrap(parse_call).number = 65536
    /\ Unwrap(parse_call).file_id = 1
    /\ Unwrap(parse_call).result.v.next_page_pointer = None

\* The Syscolpar entries of the table named table_name: number 0, the id of
\* the table, a present name; in catalog order.
ColparsOfTable(btd, table_name) ==
    LET id == Unwrap(Find(objects_dollar(btd), LAMBDA o : o.name = table_name)).id
    IN SelectSeq(btd.syscolpars, LAMBDA c : c.number = 0 /\ c.id = id /\ IsSome(c.name))

\* The names of the scalar types with the xtype.
TypeNamesOf(btd, xtype) ==
    {btd.sysscalartypes[i].name :
        i \in {j \in 1..Len(btd.sysscalartypes) : btd.sysscalartypes[j].xtype = xtype}}

\* The table found for table_name has the columns of its Syscolpar
\* entries, each with the name of a scalar type of its xtype, at least one.
ColumnsAsJoined(btd, table_name) ==
    LET t == table(btd, table_name)
        cols == ColparsOfTable(btd, table_name)
    IN /\ IsOk(t) /\ IsSome(t.v)
       /\ Len(Unwrap(t.v).columns) = Len(cols)
       /\ cols # <<>>
       /\ \A i \in 1..Len(cols) :
              /\ Unwrap(t.v).columns[i].name = Unwrap(cols[i].name)
              /\ Unwrap(t.v).columns[i].type \in TypeNamesOf(btd, cols[i].xtype)

\* C29: for every user table the column list is the Syscolpar entries with
\* number 0, the table's id and a present name, in catalog order, each with
\* the name of a Sysscalartype of the column's xtype; the list is not empty
\* and every column has such a scalar type: column_names of a user table
\* returns the names of these entries.
C29_ColumnsOfUserTables ==
    [][\A table_name \in TableNameArgs :
          (/\ Callable
           /\ table_name \in Range(tables(Unwrap(base_table_data)))
           /\ ColumnNames(table_name))
          => /\ ColumnsAsJoined(Unwrap(base_table_data), table_name)
             /\ ret'.op = "column_names"
             /\ ret'.val = Some(NamesOf(Unwrap(table(Unwrap(base_table_data), table_name).v).columns))]_vars

\* A poll of the live stream in which a read runs into the end of the source:
\* the reader consumes what was left of it.
ReadFailsInPoll ==
    /\ IsSome(stream) /\ ~Unwrap(stream).ended
    /\ page_reader.read_pos <= Len(Files[db].pages) * PageSize
    /\ page_reader'.read_pos > Len(Files[db].pages) * PageSize

\* The chain the next page of the stream belongs to: that of the page at
\* hand, else that of the next first-page pointer.
ChainOfNextPage ==
    IF IsSome(Unwrap(stream).ps.current_page) THEN Unwrap(stream).ps.chain
    ELSE Unwrap(stream).ps.chain + 1

\* C30: the row stream yields no error item: a page that cannot be read
\* produces no rows, and the stream continues with the next first-page
\* pointer of the table. The poll in which a read fails returns a Row of the
\* first page of a later first-page pointer, or None once no first-page
\* pointer is left; it returns no error.
C30_UnreadablePageSkipped ==
    [][ReadFailsInPoll
         => /\ ret'.op = "poll"
            /\ ret'.val \in {"item", "none"}
            /\ ret'.val = "item"
                  => /\ emitted' = Append(emitted, emitted'[Len(emitted')])
                     /\ emitted'[Len(emitted')].chain > ChainOfNextPage
                     /\ emitted'[Len(emitted')].step = 1
            /\ ret'.val = "none"
                  => /\ emitted' = emitted
                     /\ Unwrap(stream').ps.page_pointers = <<>>]_vars

\* The second page of the first partition of T points past the end of the
\* file: after its rows the stream has yielded the row of the second
\* partition.
C30_Witness ==
    /\ db = 2
    /\ IsSome(stream) /\ ~Unwrap(stream).ended
    /\ page_reader.read_pos > Len(Files[db].pages) * PageSize
    /\ Len(emitted) = 7
    /\ emitted[6].chain = 1 /\ emitted[6].step = 2
    /\ emitted[7].chain = 2 /\ emitted[7].step = 1
    /\ ret = Ret("poll", 7, "item")

=============================================================================
